---- MODULE Spec2Model ----
(***************************************************************************)
(* A model of the deployment engine of bravetools                          *)
(* (src/platform/host_api.go): BraveHost.InitUnit, BraveHost.Compose,      *)
(* BraveHost.MountShare and BraveHost.UmountShare, and the operations on   *)
(* one unit or one image: DeleteUnit, StartUnit, StopUnit, PublishUnit,    *)
(* BuildImage, ListMounts, ImportLocalImage and DeleteLocalImage.          *)
(*                                                                         *)
(* One run performs one top-level operation, chosen in Init (op).  Every   *)
(* call the code makes to the runtime (LXD), to the image builder, to the  *)
(* record store or to the backend that can change something is logged in   *)
(* `trace`, in the order the code issues it; validations and reads of the  *)
(* runtime are steps too, but are not logged.  The outcome of a call is    *)
(* chosen with \E.                                                         *)
(***************************************************************************)
EXTENDS Integers, Sequences, FiniteSets, TLC

VARIABLES
  op,          \* the top-level operation of this run
  pc,          \* position inside InitUnit ("idle" when no InitUnit is running)
  unitParams,  \* the shared.Service passed to InitUnit
  ctxDone,     \* ctx.Err() != nil for the context of the latest InitUnit
  notified,    \* signal.Notify has been called by some InitUnit of the process
  sigSeen,     \* an interrupt has been delivered to a watcher (history)
  watcher,     \* the goroutine of the latest InitUnit that reads the signals
  err,         \* the named result of InitUnit
  cause,       \* the error of the step that made InitUnit return (history)
  deferImage,  \* defer DeleteImageByFingerprint is registered  (line 1051)
  deferUnit,   \* the rollback defer is registered              (line 1056)
  portIdx,     \* index of the port rule the loop of line 1170 is at
  inst,        \* instance with the unit's name on the deploy target
  imageCache,  \* image with the archive's fingerprint in the runtime's cache
  record,      \* a record for the unit is in the record store
  trace,       \* log of the calls issued so far
  cpc,         \* position inside Compose
  composeFile, \* the descriptor: service name -> service definition
  order,       \* topologicalOrdering, after pruning
  topo,        \* topologicalOrdering as TopologicalOrdering() returned it (history)
  cidx,        \* index in order of the service the walk is at
  cdefers,     \* Compose's stack of deferred cleanups (last registered last)
  cerr,        \* the named result of Compose
  localImages, \* services whose image is in the local image store
  units,       \* services whose unit exists on the deploy target
  cwd,         \* the process working directory
  ctrace,      \* log of the steps Compose has taken
  mpc,         \* position inside the operation, when it is not InitUnit or Compose
  margs,       \* the arguments of that operation, and the backend type
  mnt,         \* devices of the units, the backing volume, mounts into the VM
  mtrace,      \* log of the calls of that operation
  merr,        \* the error that operation returns
  store,       \* the local image store: the archive and the hash file of one identity
  hostUnit,    \* the unit DeleteUnit is called on: instance, profile listing, record
  listing,     \* ListMounts: the devices it has collected, and the lines it has printed
  before       \* devices, image store and unit as the operation found them (history)

unitVars    == <<pc, unitParams, err, cause, deferImage, deferUnit, portIdx>>
signalVars  == <<ctxDone, notified, sigSeen, watcher>>
worldVars   == <<inst, imageCache, record>>
composeVars == <<cpc, composeFile, order, topo, cidx, cdefers, cerr, localImages, units, cwd, ctrace>>
mountVars   == <<mpc, margs, mnt, mtrace, merr, store, hostUnit, listing, before>>
vars == <<op, unitVars, signalVars, worldVars, trace, composeVars, mountVars>>

----------------------------------------------------------------------------
(* Bounds *)

\* longest list of port rules of a unit
MaxPorts == 2

----------------------------------------------------------------------------
(* Strings.  A port rule is a string; it is modelled as the sequence of its
   tokens, a token being a run of digits or one colon. *)

Colon == ":"

PortRules ==
  { <<"8080">>,
    <<"8080", Colon, "80">>,
    <<"8080", Colon, "80", Colon, "443">> }

\* strings.Split(p, ":"): the fields between the colons; n colons give n+1
\* fields, a field being the (possibly empty) token sequence between two colons
RECURSIVE SplitFrom(_, _, _)
SplitFrom(s, k, cur) ==
  IF k > Len(s) THEN <<cur>>
  ELSE IF s[k] = Colon THEN <<cur>> \o SplitFrom(s, k + 1, <<>>)
       ELSE SplitFrom(s, k + 1, Append(cur, s[k]))

Split(s) == SplitFrom(s, 1, <<>>)

PortLists == UNION { [1..n -> PortRules] : n \in 0..MaxPorts }

\* unitParams: ip (a static IP is requested), gpu (Resources.GPU = "yes"),
\* docker (Docker = "yes"), cpu and ram (Resources.CPU, Resources.RAM),
\* ports (the port rules), image ("ref": the image reference the caller gave,
\* "alias": the unit's name, set by line 1047), imageRemote (the remote the
\* image reference names), deployLocal (the unit name names the local remote)
UnitParams ==
  [ip : BOOLEAN, gpu : BOOLEAN, docker : BOOLEAN, cpu : {"1"}, ram : {"512MB"},
   ports : PortLists, image : {"ref"},
   imageRemote : {"local", "other"}, deployLocal : BOOLEAN]

----------------------------------------------------------------------------
(* The log of calls *)

\* one call: its name, two arguments, and what the caller could see when it
\* checked the call's outcome: ctx (the context of the running InitUnit was
\* cancelled) and sig (an interrupt had been delivered earlier in the run)
Call(name, a, b) == [op |-> name, a |-> a, b |-> b, ctx |-> ctxDone, sig |-> sigSeen]

Log(name) == trace' = Append(trace, Call(name, <<>>, <<>>))

Issued(name) == \E k \in 1..Len(trace) : trace[k].op = name

Count(name) == Cardinality({k \in 1..Len(trace) : trace[k].op = name})

----------------------------------------------------------------------------
(* BraveHost.InitUnit *)

InitUnitFrame == UNCHANGED <<op, composeVars, mountVars>>

\* the process is running: log.Fatal has not ended it ("exited") and no
\* signal with the default disposition has killed it ("killed")
ProcessUp == pc \notin {"exited", "killed"}

\* shared.CollectErrors(err, ctx.Err()) != nil
CollectErrors(callFailed, ctxErr) == callFailed \/ ctxErr

\* return e: the named result is set, then the deferred functions run
Return(e) == err' = e /\ cause' = e /\ pc' = "defers"

\* the step succeeded: on to the next one
Goto(to) == pc' = to /\ err' = "nil" /\ UNCHANGED cause

\* a validation or a read of the runtime, which changes nothing and is not
\* logged: if err != nil { return err }
ReadStep(from, to, tag) ==
  /\ pc = from
  /\ \E ok \in BOOLEAN :
       IF ~ok THEN Return(tag) ELSE Goto(to)
  /\ UNCHANGED <<unitParams, deferImage, deferUnit, portIdx, signalVars, worldVars, trace>>
  /\ InitUnitFrame

\* a call without a cancellation check: if err != nil { return err }
PlainStep(name, from, to, tag) ==
  /\ pc = from
  /\ \E ok \in BOOLEAN :
       /\ Log(name)
       /\ IF ~ok THEN Return(tag) ELSE Goto(to)
  /\ UNCHANGED <<unitParams, deferImage, deferUnit, portIdx, signalVars, worldVars>>
  /\ InitUnitFrame

\* a step whose outcome is combined with the context's:
\* if err = shared.CollectErrors(err, ctx.Err()); err != nil { return ... }
CheckedStep(name, from, to, tag) ==
  /\ pc = from
  /\ \E ok \in BOOLEAN :
       /\ Log(name)
       /\ IF CollectErrors(~ok, ctxDone) THEN Return(tag) ELSE Goto(to)
  /\ UNCHANGED <<unitParams, deferImage, deferUnit, portIdx, signalVars, worldVars>>
  /\ InitUnitFrame

\* lines 888-895
ValidateDeploy == ReadStep("validate", "watch", "validate")

\* lines 897-908: a fresh context, and a watcher that cancels it on a signal;
\* the go statement starts the watcher, which has yet to run
WatchSignals ==
  /\ pc = "watch"
  /\ ctxDone' = FALSE
  /\ notified' = TRUE
  /\ watcher' = "started"
  /\ pc' = "parse"
  /\ UNCHANGED <<unitParams, err, cause, deferImage, deferUnit, portIdx, sigSeen, worldVars, trace>>
  /\ InitUnitFrame

\* lines 910-920
ParseImage == ReadStep("parse", "pull", "parse")

\* the type switch on BuildImage's error with the ImageExistsError case missing
BuildAborts_OnExists(res) == res # "nil"

\* lines 943-952 and 1297-1312, the type switch on BuildImage's error: nil and
\* *ImageExistsError go on, any other error is returned
BuildAborts(res) == res \notin {"nil", "exists"}

\* lines 922-953: the image's remote is the local one (the backend is started)
\* or another one (the image is built from it into the local image store)
EnsureImageLocal ==
  /\ pc = "pull"
  /\ IF unitParams.imageRemote = "local"
       THEN \E ok \in BOOLEAN :
            /\ Log("Backend.Start")
            /\ IF ok THEN Goto("connect") ELSE Return("backend")
       ELSE \E res \in {"nil", "exists", "error"} :
            /\ trace' = Append(trace, Call("BuildImage", res, <<>>))
            /\ IF BuildAborts(res) THEN Return("build") ELSE Goto("connect")
  /\ UNCHANGED <<unitParams, deferImage, deferUnit, portIdx, signalVars, worldVars>>
  /\ InitUnitFrame

\* lines 955-994: start the backend when the deploy remote is the local one,
\* load the remote and connect to it
ConnectDeployRemote ==
  /\ pc = "connect"
  /\ \E res \in {"ok", "startFails", "connectFails"} :
       /\ (res = "startFails") => unitParams.deployLocal
       /\ trace' = IF unitParams.deployLocal
                     THEN Append(trace, Call("Backend.Start", <<>>, <<>>)) ELSE trace
       /\ CASE res = "ok"           -> Goto("exists")
            [] res = "startFails"   -> Return("backend")
            [] res = "connectFails" -> Return("connect")
  /\ UNCHANGED <<unitParams, deferImage, deferUnit, portIdx, signalVars, worldVars>>
  /\ InitUnitFrame

\* line 997 with the test of the lookup's error inverted
InstanceExists_Inverted(i) == i = "absent"

\* line 997: GetInstance returns no error exactly when the instance exists
InstanceExists(i) == i # "absent"

\* lines 996-999
CheckExisting ==
  /\ pc = "exists"
  /\ IF InstanceExists(inst) THEN Return("nameExists") ELSE Goto("resolve")
  /\ UNCHANGED <<unitParams, deferImage, deferUnit, portIdx, signalVars, worldVars, trace>>
  /\ InitUnitFrame

\* lines 1001-1023: architecture, archive path, size and hash of the image
ResolveImage == ReadStep("resolve", "storage", "resolve")

\* lines 1025-1031
CheckStoragePoolSpace ==
  /\ pc = "storage"
  /\ \/ Goto("memory")             \* unitParams.Storage = ""
     \/ \E ok \in BOOLEAN :
          IF ok THEN Goto("memory") ELSE Return("storage")
  /\ UNCHANGED <<unitParams, deferImage, deferUnit, portIdx, signalVars, worldVars, trace>>
  /\ InitUnitFrame

\* log.Fatal ends the process: no return, no deferred function runs
CheckMemory_Returns ==
  /\ pc = "memory"
  /\ \E ok \in BOOLEAN :
       IF ok THEN Goto("hostports") ELSE Return("memory")
  /\ UNCHANGED <<unitParams, deferImage, deferUnit, portIdx, signalVars, worldVars, trace>>
  /\ InitUnitFrame

\* lines 1032-1035
CheckMemory ==
  /\ pc = "memory"
  /\ \E ok \in BOOLEAN :
       IF ok THEN Goto("hostports")
             ELSE pc' = "exited" /\ err' = "memory" /\ cause' = "memory"
  /\ UNCHANGED <<unitParams, deferImage, deferUnit, portIdx, signalVars, worldVars, trace>>
  /\ InitUnitFrame

\* lines 1037-1042
CheckHostPorts ==
  /\ pc = "hostports"
  /\ \/ Goto("import")             \* the remote is a unix socket
     \/ \E ok \in BOOLEAN :
          IF ok THEN Goto("import") ELSE Return("hostPorts")
  /\ UNCHANGED <<unitParams, deferImage, deferUnit, portIdx, signalVars, worldVars, trace>>
  /\ InitUnitFrame

\* lines 1044-1052: GetImage succeeds exactly when the image is in the cache
ImportImage ==
  /\ pc = "import"
  /\ IF imageCache # "absent"
       THEN /\ Goto("launch")
            /\ UNCHANGED <<unitParams, deferImage, imageCache, trace>>
       ELSE \E ok \in BOOLEAN :
            /\ Log("ImportImage")
            /\ imageCache' = IF ok THEN "imported" ELSE "absent"
            /\ unitParams' = [unitParams EXCEPT !.image = "alias"]
            /\ IF CollectErrors(~ok, ctxDone)
                 THEN Return("import") /\ UNCHANGED deferImage
                 ELSE Goto("launch") /\ deferImage' = TRUE
  /\ UNCHANGED <<deferUnit, portIdx, signalVars, inst, record>>
  /\ InitUnitFrame

\* lines 1054-1066: the rollback is registered before the outcome is looked at;
\* a launch that fails may leave the instance behind
LaunchFromImage ==
  /\ pc = "launch"
  /\ \E ok \in BOOLEAN, left \in BOOLEAN :
       /\ (ok \/ left) => inst = "absent"      \* the name must be free
       /\ Log("LaunchFromImage")
       /\ inst' = IF ok \/ left THEN "created" ELSE inst
       /\ deferUnit' = TRUE
       /\ IF CollectErrors(~ok, ctxDone) THEN Return("launch")
                                          ELSE Goto("attach")
  /\ UNCHANGED <<unitParams, deferImage, portIdx, signalVars, imageCache, record>>
  /\ InitUnitFrame

\* lines 1068-1071
AttachNetwork == CheckedStep("AttachNetwork", "attach", "ip", "attach")

\* lines 1073-1084
ConfigDevice ==
  \/ /\ unitParams.ip
     /\ CheckedStep("ConfigDevice", "ip", "stop1", "ip")
  \/ /\ ~unitParams.ip
     /\ pc = "ip"
     /\ pc' = "stop1"
     /\ UNCHANGED <<unitParams, err, cause, deferImage, deferUnit, portIdx, signalVars, worldVars, trace>>
     /\ InitUnitFrame

\* lines 1086-1089
Stop1 == CheckedStep("Stop", "stop1", "start1", "stop")

\* lines 1091-1094
Start1 == CheckedStep("Start", "start1", "version", "start")

\* lines 1096-1119: user.Current and GetLXDServerVersion
GetLXDServerVersion == ReadStep("version", "gpu", "version")

\* the GPU flag without the attach of the device
AddGPU_Never ==
  /\ pc = "gpu"
  /\ pc' = "config"
  /\ UNCHANGED <<unitParams, err, cause, deferImage, deferUnit, portIdx, signalVars, worldVars, trace>>
  /\ InitUnitFrame

\* lines 1144-1151: the outcome of AddDevice alone decides, the context is not
\* looked at
AddGPU ==
  \/ /\ unitParams.gpu
     /\ PlainStep("AddDevice", "gpu", "config", "gpu")
  \/ /\ ~unitParams.gpu
     /\ pc = "gpu"
     /\ pc' = "config"
     /\ UNCHANGED <<unitParams, err, cause, deferImage, deferUnit, portIdx, signalVars, worldVars, trace>>
     /\ InitUnitFrame

\* lines 1122-1145: the keys limits.cpu, limits.memory, security.nesting and
\* nvidia.runtime of the configuration map (raw.idmap, which depends on the
\* server version and the user only, is not a key any property reads)
UnitConfig(p) ==
  [cpu |-> p.cpu, memory |-> p.ram,
   nesting |-> IF p.docker THEN "true" ELSE "false",
   nvidia  |-> IF p.gpu THEN "true" ELSE "false"]

\* lines 1153-1156
SetConfig ==
  /\ pc = "config"
  /\ \E ok \in BOOLEAN :
       /\ trace' = Append(trace, Call("SetConfig", UnitConfig(unitParams), <<>>))
       /\ IF CollectErrors(~ok, ctxDone) THEN Return("config") ELSE Goto("stop2")
  /\ UNCHANGED <<unitParams, deferImage, deferUnit, portIdx, signalVars, worldVars>>
  /\ InitUnitFrame

\* the second bounce with the unit started where it is to be stopped
Stop2_StartsFirst == CheckedStep("Start", "stop2", "start2", "start")

\* lines 1158-1161
Stop2 == CheckedStep("Stop", "stop2", "start2", "stop")

\* lines 1163-1166
Start2 == CheckedStep("Start", "start2", "ports", "start")

\* line 1172
MalformedPortRule(ps) == Len(ps) < 2

\* the arguments of addIPRules in the order of the fields
PortRuleArgs_FieldOrder(ps) == [host |-> ps[1], unit |-> ps[2]]

\* line 1177, addIPRules(lxdServer, unitName, ps[1], ps[0]): the host port is
\* the second field, the unit's port the first (Go counts fields from 0)
PortRuleArgs(ps) == [host |-> ps[2], unit |-> ps[1]]

\* lines 1168-1182: one turn of the loop, or the loop's end
AddPortRule ==
  /\ pc = "ports"
  /\ IF portIdx > Len(unitParams.ports)
       THEN /\ pc' = "postdeploy"
            /\ UNCHANGED <<err, cause, portIdx, trace>>
       ELSE LET ps == Split(unitParams.ports[portIdx]) IN
            IF MalformedPortRule(ps)
              THEN /\ Return("portFormat")
                   /\ UNCHANGED <<portIdx, trace>>
              ELSE \E ok \in BOOLEAN :
                   /\ trace' = Append(trace, Call("addIPRules", PortRuleArgs(ps).host,
                                                                  PortRuleArgs(ps).unit))
                   /\ IF CollectErrors(~ok, ctxDone)
                        THEN Return("port") /\ UNCHANGED portIdx
                        ELSE Goto("ports") /\ portIdx' = portIdx + 1
  /\ UNCHANGED <<unitParams, deferImage, deferUnit, signalVars, worldVars>>
  /\ InitUnitFrame

\* lines 1184-1187
Postdeploy == CheckedStep("postdeploy", "postdeploy", "persist", "postdeploy")

\* lines 1208-1212, db.UnitData: CPU, RAM, IP and Image of unitParams as they
\* are when the record is built
UnitData(p) == [cpu |-> p.cpu, ram |-> p.ram, ip |-> p.ip, image |-> p.image]

\* lines 1189-1226: home directory, OpenDB, json.Marshal, InsertUnitDB
PersistRecord ==
  /\ pc = "persist"
  /\ \E res \in {"ok", "home", "open", "marshal", "insert"} :
       /\ trace' = IF res \in {"ok", "insert"}
                     THEN Append(trace, Call("InsertUnitDB", UnitData(unitParams), <<>>))
                     ELSE trace
       /\ record' = (res = "ok")
       /\ Return(IF res = "ok" THEN "nil" ELSE "persist")
  /\ UNCHANGED <<unitParams, deferImage, deferUnit, portIdx, signalVars, inst, imageCache>>
  /\ InitUnitFrame

\* line 1057, with the persistence errors left out
NeedsRollback_NotPersist(e) == e \notin {"nil", "persist"}

\* line 1057, with the format error of line 1174 left out
NeedsRollback_NotPortFormat(e) == e \notin {"nil", "portFormat"}

\* line 1057, registered only once the launch is known to have succeeded
NeedsRollback_NotLaunch(e) == e \notin {"nil", "launch"}

\* line 1057: the deferred function looks at the named result
NeedsRollback(e) == e # "nil"

\* the result after a failed rollback delete, when the delete's error is
\* returned in place of the step's
ErrAfterRollback_Masked(e, delOk) == IF delOk THEN e ELSE "delete"

\* lines 1058-1061: delErr is logged, the named result is left alone
ErrAfterRollback(e, delOk) == e

\* lines 1056-1063, the deferred function registered last, so run first;
\* DeleteUnit succeeds only on an instance that exists
RollbackUnit ==
  /\ pc = "defers"
  /\ IF deferUnit /\ NeedsRollback(err)
       THEN \E ok \in BOOLEAN :
            /\ ok => inst # "absent"
            /\ Log("DeleteUnit")
            /\ inst' = IF ok THEN "absent" ELSE inst
            /\ err' = ErrAfterRollback(err, ok)
       ELSE UNCHANGED <<trace, inst, err>>
  /\ pc' = "defers2"
  /\ UNCHANGED <<unitParams, cause, deferImage, deferUnit, portIdx, signalVars, imageCache, record>>
  /\ InitUnitFrame

\* line 1051, the deferred call registered first, so run last
DeleteImageByFingerprint ==
  /\ pc = "defers2"
  /\ IF deferImage
       THEN \E ok \in BOOLEAN :
            /\ Log("DeleteImageByFingerprint")
            /\ imageCache' = IF ok THEN "absent" ELSE imageCache
       ELSE UNCHANGED <<trace, imageCache>>
  /\ pc' = "returned"
  /\ UNCHANGED <<unitParams, err, cause, deferImage, deferUnit, portIdx, signalVars, inst, record>>
  /\ InitUnitFrame

\* lines 901-908 and the Go runtime: a signal delivered to the process, and
\* read by the watcher when there is one.  Once signal.Notify has run, the
\* watcher of the latest InitUnit cancels its context (watchers of earlier
\* InitUnit calls cancel contexts nobody reads any more); before that, the
\* default disposition ends the process.  The watcher is taken to be at its
\* receive when the signal comes: Signal below is the delivery without that.
Interrupt ==
  /\ op \in {"InitUnit", "Compose"}
  /\ ProcessUp
  /\ ~(op = "InitUnit" /\ pc = "returned")
  /\ ~(op = "Compose" /\ cpc = "returned")
  /\ IF notified
       THEN /\ sigSeen' = TRUE
            /\ ctxDone' = TRUE
            /\ UNCHANGED pc
       ELSE /\ pc' = "killed"
            /\ UNCHANGED <<sigSeen, ctxDone>>
  /\ UNCHANGED <<op, unitParams, err, cause, deferImage, deferUnit, portIdx, notified,
                 watcher, worldVars, trace, composeVars, mountVars>>

\* lines 900-903: the watcher reaches `for range c`, the receive on the
\* channel c, which make(chan os.Signal) made without a buffer
WatcherReceives ==
  /\ op = "InitUnit"
  /\ pc \notin {"returned", "exited", "killed"}
  /\ watcher = "started"
  /\ watcher' = "receiving"
  /\ UNCHANGED <<unitVars, ctxDone, notified, sigSeen, worldVars, trace>>
  /\ InitUnitFrame

\* lines 900-901 and os/signal: the send to the channel does not block, so a
\* signal is dropped unless the watcher is at its receive
Delivery(w) == IF w = "receiving" THEN "received" ELSE "dropped"

\* lines 900-908 and the Go runtime: a signal delivered to the process.  The
\* watcher that receives it prints a line and calls cancel()
Signal ==
  /\ op = "InitUnit"
  /\ pc \notin {"returned", "exited", "killed"}
  /\ IF notified
       THEN /\ sigSeen' = TRUE
            /\ ctxDone' = (ctxDone \/ Delivery(watcher) = "received")
            /\ UNCHANGED pc
       ELSE /\ pc' = "killed"
            /\ UNCHANGED <<sigSeen, ctxDone>>
  /\ UNCHANGED <<unitParams, err, cause, deferImage, deferUnit, portIdx, notified,
                 watcher, worldVars, trace>>
  /\ InitUnitFrame

InitUnitStep ==
  \/ ValidateDeploy \/ WatchSignals \/ ParseImage \/ EnsureImageLocal
  \/ ConnectDeployRemote \/ CheckExisting \/ ResolveImage
  \/ CheckStoragePoolSpace \/ CheckMemory \/ CheckHostPorts
  \/ ImportImage \/ LaunchFromImage \/ AttachNetwork \/ ConfigDevice
  \/ Stop1 \/ Start1 \/ GetLXDServerVersion \/ AddGPU \/ SetConfig
  \/ Stop2 \/ Start2 \/ AddPortRule \/ Postdeploy \/ PersistRecord
  \/ RollbackUnit \/ DeleteImageByFingerprint

----------------------------------------------------------------------------
(* The compose descriptor *)

Services == {"a", "b"}

\* a service: bravefile (service.Bravefile # ""), base and build (the two
\* flags), dep (the service whose image is the base image of this one's build,
\* "none" when the base image is not built by the descriptor)
ServiceDefs ==
  { d \in [bravefile : BOOLEAN, base : BOOLEAN, build : BOOLEAN,
           dep : Services \cup {"none"}] : d.dep # "none" => d.bravefile }

ComposeFiles == { cf \in [Services -> ServiceDefs] : \A s \in Services : cf[s].dep # s }

\* a third service that has no Bravefile and no flag and that no service
\* depends on: it is deployed from an image that exists
Unrelated == "c"

UnrelatedDef == [bravefile |-> FALSE, base |-> FALSE, build |-> FALSE, dep |-> "none"]

\* the descriptors with the third service added
ComposeFilesWithUnrelated ==
  { [s \in Services \cup {Unrelated} |-> IF s = Unrelated THEN UnrelatedDef ELSE cf[s]] :
      cf \in ComposeFiles }

\* s depends on t through at most n edges
RECURSIVE DependsOn(_, _, _, _)
DependsOn(cf, s, t, n) ==
  /\ n > 0
  /\ cf[s].dep # "none"
  /\ \/ cf[s].dep = t
     \/ DependsOn(cf, cf[s].dep, t, n - 1)

Cyclic(cf) == \E s \in DOMAIN cf : DependsOn(cf, s, s, Cardinality(DOMAIN cf))

\* composeFile.TopologicalOrdering(): every service once, a service after the
\* service it depends on
TopologicalOrders(cf) ==
  { o \in [1..Cardinality(DOMAIN cf) -> DOMAIN cf] :
      /\ \A i, j \in DOMAIN o : i # j => o[i] # o[j]
      /\ \A i, j \in DOMAIN o :
           DependsOn(cf, o[i], o[j], Cardinality(DOMAIN cf)) => j < i }

\* getBaseOnlyServices
BaseOnlyServices(cf) == { s \in DOMAIN cf : cf[s].base /\ ~cf[s].build }

\* getBuildDependents: the services built on top of base whose image is not in
\* the local image store yet
BuildDependents(cf, base, images) ==
  { s \in DOMAIN cf : cf[s].dep = base /\ s \notin images }

\* the removal that moves the last service into the place of the dropped one
RECURSIVE Without_SwapRemove(_, _)
Without_SwapRemove(o, drop) ==
  IF \A i \in DOMAIN o : o[i] \notin drop THEN o
  ELSE LET i    == CHOOSE k \in DOMAIN o :
                     o[k] \in drop /\ \A j \in 1..(k - 1) : o[j] \notin drop
           rest == SubSeq(o, 1, Len(o) - 1)
       IN  Without_SwapRemove(IF i = Len(o) THEN rest
                                            ELSE [rest EXCEPT ![i] = o[Len(o)]], drop)

\* lines 1254-1260: the ordering without the services in drop
RECURSIVE Without(_, _)
Without(o, drop) ==
  IF o = <<>> THEN <<>>
  ELSE IF Head(o) \in drop THEN Without(Tail(o), drop)
       ELSE <<Head(o)>> \o Without(Tail(o), drop)

\* the unit parameters of the services of a descriptor: local images, the
\* local remote, no static IP, no GPU, no port rule
ComposeUnitParams ==
  { p \in UnitParams : /\ ~p.ip /\ ~p.gpu /\ ~p.docker /\ p.ports = <<>>
                       /\ p.imageRemote = "local" /\ p.deployLocal }

----------------------------------------------------------------------------
(* BraveHost.Compose *)

ComposeFrame == UNCHANGED <<op, composeFile, topo, mountVars>>

\* the walk of line 1278 with the ordering taken from its end
CurrentService_FromEnd(o, i) == o[Len(o) + 1 - i]

\* line 1278: the service the walk over topologicalOrdering is at
CurrentService(o, i) == o[i]

CStep(name, svc, res) == [op |-> name, svc |-> svc, res |-> res, sig |-> sigSeen]

CLog(name, svc, res) == ctrace' = Append(ctrace, CStep(name, svc, res))

\* return e from Compose: the named result is set, then the deferred
\* functions run
CReturn(e) == cerr' = e /\ cpc' = "defers"

\* lines 1228-1240
ComposeStart ==
  /\ cpc = "start" /\ pc = "idle"
  /\ \E ok \in BOOLEAN :
       IF ok THEN /\ cwd' = "working"
                  /\ cdefers' = Append(cdefers, [kind |-> "chdir", svc |-> "none"])
                  /\ cpc' = "order" /\ cerr' = "nil"
             ELSE /\ CReturn("path")
                  /\ UNCHANGED <<cwd, cdefers>>
  /\ UNCHANGED <<unitVars, signalVars, worldVars, trace, order, cidx, localImages, units, ctrace>>
  /\ ComposeFrame

\* lines 1242-1246
TopologicalOrdering ==
  /\ cpc = "order" /\ pc = "idle"
  /\ IF Cyclic(composeFile)
       THEN /\ CReturn("cycle")
            /\ UNCHANGED <<order, topo>>
       ELSE /\ order' \in TopologicalOrders(composeFile)
            /\ topo' = order'
            /\ cpc' = "prune" /\ cerr' = "nil"
  /\ UNCHANGED <<unitVars, signalVars, worldVars, trace, cidx, cdefers, localImages, units, cwd, ctrace>>
  /\ UNCHANGED <<op, composeFile, mountVars>>

\* lines 1248-1261
PruneBaseOnly ==
  /\ cpc = "prune" /\ pc = "idle"
  /\ LET drop == { b \in BaseOnlyServices(composeFile) :
                     BuildDependents(composeFile, b, localImages) = {} }
     IN  order' = Without(order, drop)
  /\ cpc' = "validate"
  /\ UNCHANGED <<unitVars, signalVars, worldVars, trace, cidx, cdefers, cerr, localImages, units, cwd, ctrace>>
  /\ ComposeFrame

\* lines 1263-1275: every service of the ordering is valid, or the first
\* invalid one ends Compose
ValidateServices ==
  /\ cpc = "validate" /\ pc = "idle"
  /\ \/ /\ cpc' = "build" /\ cidx' = 1
        /\ UNCHANGED <<cerr, ctrace>>
     \/ \E k \in 1..Len(order) :
          /\ CLog("ValidateDeploy", order[k], "error")
          /\ CReturn("validate")
          /\ UNCHANGED cidx
  /\ UNCHANGED <<unitVars, signalVars, worldVars, trace, order, cdefers, localImages, units, cwd>>
  /\ ComposeFrame

\* BraveHost.BuildImage, lines 699-720: an image already in the local store is
\* an ImageExistsError, unless it is still to be transferred
BuildOutcomes(svc, images) ==
  IF svc \in images THEN {"exists", "nil", "error"} ELSE {"nil", "error"}

\* the delete of a base image registered only when the build made the image
BaseCleanup_BuiltOnly(svc, def, res) ==
  IF def.base /\ ~def.build /\ res = "nil"
    THEN <<[kind |-> "baseImage", svc |-> svc]>>
    ELSE <<>>

\* lines 1315-1320, after the type switch: the delete of the image of a
\* service that is base and not build, whatever BuildImage returned
BaseCleanup(svc, def, res) ==
  IF def.base /\ ~def.build
    THEN <<[kind |-> "baseImage", svc |-> svc]>>
    ELSE <<>>

\* lines 1278-1322: the build part of one turn of the walk
BuildService ==
  /\ cpc = "build" /\ pc = "idle"
  /\ cidx <= Len(order)
  /\ LET svc == CurrentService(order, cidx)
         def == composeFile[svc]
     IN  IF def.bravefile /\ (def.build \/ def.base)
           THEN \E res \in BuildOutcomes(svc, localImages) \cup {"invalid"} :
                IF res = "invalid"
                  THEN \* ValidateBuild fails, line 1286
                       /\ CReturn("validateBuild")
                       /\ UNCHANGED <<cwd, cdefers, localImages, ctrace>>
                  ELSE /\ CLog("BuildImage", svc, res)
                       /\ localImages' = IF res = "nil" THEN localImages \cup {svc}
                                                        ELSE localImages
                       /\ IF BuildAborts(res)
                            THEN /\ CReturn("build")
                                 /\ cwd' = "build"
                                 /\ UNCHANGED cdefers
                            ELSE /\ cpc' = "deploy" /\ cerr' = "nil"
                                 /\ cwd' = "working"
                                 /\ cdefers' =
                                      cdefers
                                      \o (IF res = "nil"
                                            THEN <<[kind |-> "image", svc |-> svc]>>
                                            ELSE <<>>)
                                      \o BaseCleanup(svc, def, res)
           ELSE /\ cpc' = "deploy"
                /\ UNCHANGED <<cerr, cwd, cdefers, localImages, ctrace>>
  /\ UNCHANGED <<unitVars, signalVars, worldVars, trace, order, cidx, units>>
  /\ ComposeFrame

\* lines 1324-1341: the deploy part of one turn, up to the call of InitUnit;
\* a service flagged base is skipped
DeployService ==
  /\ cpc = "deploy" /\ pc = "idle"
  /\ LET svc == CurrentService(order, cidx) IN
     IF composeFile[svc].base
       THEN /\ cidx' = cidx + 1
            /\ cpc' = "build"
            /\ UNCHANGED <<unitVars, worldVars, trace, cwd, units, ctrace>>
       ELSE /\ cwd' = "deploy"
            /\ CLog("InitUnit", svc, "called")
            /\ cpc' = "deploying"
            /\ pc' = "validate"
            /\ unitParams' \in ComposeUnitParams
            /\ inst' = IF svc \in units THEN "preexisting" ELSE "absent"
            /\ UNCHANGED <<err, cause, deferImage, deferUnit, portIdx, imageCache, record, trace>>
            /\ UNCHANGED <<cidx, units>>
  /\ UNCHANGED <<signalVars, order, cdefers, cerr, localImages>>
  /\ ComposeFrame

\* lines 1341-1352: InitUnit has returned
DeployReturn ==
  /\ cpc = "deploying" /\ pc = "returned"
  /\ LET svc == CurrentService(order, cidx) IN
     /\ CLog("InitUnit returned", svc, IF err = "nil" THEN "nil" ELSE "error")
     /\ units' = IF inst = "absent" THEN units \ {svc} ELSE units \cup {svc}
     /\ IF err # "nil"
          THEN /\ CReturn("deploy")
               /\ UNCHANGED <<cidx, cdefers, cwd>>
          ELSE /\ cdefers' = Append(cdefers, [kind |-> "unit", svc |-> svc])
               /\ cwd' = "working"
               /\ cidx' = cidx + 1
               /\ cpc' = "build" /\ cerr' = "nil"
  /\ pc' = "idle"
  /\ unitParams' = [unitParams EXCEPT !.image = "ref"]
  /\ err' = "nil" /\ cause' = "nil"
  /\ deferImage' = FALSE /\ deferUnit' = FALSE /\ portIdx' = 1
  /\ inst' = "absent" /\ imageCache' = "absent" /\ record' = FALSE
  /\ trace' = <<>>
  /\ UNCHANGED <<signalVars, order, localImages>>
  /\ ComposeFrame

\* line 1355
ComposeDone ==
  /\ cpc = "build" /\ pc = "idle"
  /\ cidx > Len(order)
  /\ CReturn("nil")
  /\ UNCHANGED <<unitVars, signalVars, worldVars, trace, order, cidx, cdefers, localImages, units, cwd, ctrace>>
  /\ ComposeFrame

\* the cleanups with the delete of the deployed units never acting
CleanupFires_ImagesOnly(kind, e) ==
  kind \in {"chdir", "baseImage"} \/ (e # "nil" /\ kind = "image")

\* the cleanups with the delete of a base image acting only on an error
CleanupFires_BaseOnError(kind, e) == kind = "chdir" \/ e # "nil"

\* the cleanups with the restore of the directory acting only on an error
CleanupFires_ChdirOnError(kind, e) == kind = "baseImage" \/ e # "nil"

\* lines 1301 and 1346: these cleanups act only when Compose returns an error
CleanupFires(kind, e) == kind \in {"chdir", "baseImage"} \/ e # "nil"

\* the deferred functions of Compose, last registered first: lines 1240,
\* 1300-1304, 1317-1319, 1345-1349
RunDeferred ==
  /\ cpc = "defers" /\ pc = "idle"
  /\ IF cdefers = <<>>
       THEN /\ cpc' = "returned"
            /\ UNCHANGED <<cdefers, cwd, localImages, units, ctrace>>
       ELSE LET d == cdefers[Len(cdefers)] IN
            /\ cdefers' = SubSeq(cdefers, 1, Len(cdefers) - 1)
            /\ UNCHANGED cpc
            /\ IF ~CleanupFires(d.kind, cerr)
                 THEN UNCHANGED <<cwd, localImages, units, ctrace>>
                 ELSE CASE d.kind = "chdir" ->
                             /\ cwd' = "start"
                             /\ CLog("Chdir", "none", "nil")
                             /\ UNCHANGED <<localImages, units>>
                        [] d.kind = "unit" ->
                             \E ok \in BOOLEAN :
                               /\ ok => d.svc \in units
                               /\ CLog("DeleteUnit", d.svc, IF ok THEN "nil" ELSE "error")
                               /\ units' = IF ok THEN units \ {d.svc} ELSE units
                               /\ UNCHANGED <<cwd, localImages>>
                        [] d.kind \in {"image", "baseImage"} ->
                             \E ok \in BOOLEAN :
                               /\ ok => d.svc \in localImages
                               /\ CLog("DeleteLocalImage", d.svc, IF ok THEN "nil" ELSE "error")
                               /\ localImages' = IF ok THEN localImages \ {d.svc}
                                                       ELSE localImages
                               /\ UNCHANGED <<cwd, units>>
  /\ UNCHANGED <<unitVars, signalVars, worldVars, trace, order, cidx, cerr>>
  /\ ComposeFrame

ComposeStep ==
  \/ ComposeStart \/ TopologicalOrdering \/ PruneBaseOnly \/ ValidateServices
  \/ BuildService \/ DeployService \/ DeployReturn \/ ComposeDone \/ RunDeferred

----------------------------------------------------------------------------
(* The mount subsystem: BraveHost.MountShare and BraveHost.UmountShare *)

BackendTypes == {"multipass", "lxd"}

Slash == "/"

\* a path is the sequence of its tokens, a token being a name or one slash
MountPaths == { <<Slash, "data">>, <<"data", Slash>> }

RECURSIVE TrimLeft(_)
TrimLeft(p) == IF p # <<>> /\ Head(p) = Slash THEN TrimLeft(Tail(p)) ELSE p

RECURSIVE TrimRight(_)
TrimRight(p) ==
  IF p # <<>> /\ p[Len(p)] = Slash THEN TrimRight(SubSeq(p, 1, Len(p) - 1)) ELSE p

\* cleanMountTargetPath: one leading slash, no trailing slash
cleanMountTargetPath(p) == <<Slash>> \o TrimRight(TrimLeft(p))

\* the source argument of MountShare: a host path, UNIT:path, or a string with
\* two colons
MountSources ==
  { <<Slash, "srv">>,
    <<"u1", Colon, Slash, "srv">>,
    <<"u1", Colon, Slash, "srv", Colon, "x">> }

\* getDiskDeviceHash(unit, target): the device identity, a function of the
\* unit and the target path
getDiskDeviceHash(unit, target) == <<unit, target>>

\* a device of the orchestrator on a unit: vol (it attaches the backing volume)
Device(unit, target, vol) == [name |-> getDiskDeviceHash(unit, target), vol |-> vol]

\* the units that reference the backing volume (volume.UsedBy)
UsedBy(w) == { d.name[1] : d \in { x \in w.devices : x.vol } }

\* the worlds UmountShare is started in
MountWorlds ==
  { [devices |-> ds, volume |-> v, vmMounts |-> vm] :
      ds \in SUBSET { Device("u1", <<Slash, "srv">>, TRUE),
                      Device("u2", <<Slash, "data">>, TRUE),
                      Device("u2", <<Slash, "data">>, FALSE) },
      v \in BOOLEAN,
      vm \in SUBSET { getDiskDeviceHash("u2", <<Slash, "data">>) } }

MCall(name, unit, target) == [op |-> name, unit |-> unit, target |-> target]

\* the call of createSharedVolume, with its outcome
CreateCall(unit, target, out) ==
  MCall(IF out = "ok" THEN "createSharedVolume" ELSE "createSharedVolume failed",
        unit, target)

UmountOutcomes == {"ok", "connectFails", "deleteDeviceFails", "dirCheckFails", "vmUmountFails"}

\* BraveHost.UmountShare(unit, target) in world w with log lg, its calls
\* ending as out says: the world, the log and the error it returns.
\* DeleteDevice fails when the unit has no device of that name.
UmountShare(w, lg, backend, unit, target, out) ==
  LET path   == cleanMountTargetPath(target)
      name   == getDiskDeviceHash(unit, path)
      devs   == { d \in w.devices : d.name = name }
      lg1    == Append(lg, MCall("DeleteDevice", unit, path))
      w1     == [w EXCEPT !.devices = w.devices \ devs]
      \* lines 436-441: the volume is looked at whatever the share was
      volume == IF UsedBy(w1) = {}
                  THEN [w |-> [w1 EXCEPT !.volume = FALSE],
                        lg |-> Append(lg1, MCall("DeleteVolume", unit, path))]
                  ELSE [w |-> w1, lg |-> lg1]
  IN  IF out = "connectFails" THEN [w |-> w, lg |-> lg, err |-> "connect"]
      ELSE IF out = "deleteDeviceFails" \/ devs = {}
        THEN [w |-> w, lg |-> lg1, err |-> "umount"]
      ELSE IF backend = "multipass" /\ out = "dirCheckFails"
        THEN [w |-> w1, lg |-> lg1, err |-> "dirCheck"]
      ELSE IF backend = "multipass" /\ name \in w.vmMounts
        THEN IF out = "vmUmountFails"
               THEN [w |-> w1,
                     lg |-> Append(lg1, MCall("multipass umount", unit, path)),
                     err |-> "vmUmount"]
               ELSE LET w2 == [volume.w EXCEPT !.vmMounts = w.vmMounts \ {name}]
                    IN  [w |-> w2,
                         lg |-> Append(lg1, MCall("multipass umount", unit, path))
                                \o SubSeq(volume.lg, Len(lg1) + 1, Len(volume.lg)),
                         err |-> "nil"]
      ELSE [w |-> volume.w, lg |-> volume.lg, err |-> "nil"]

\* createSharedVolume: create the volume, attach it to the source unit, then
\* to the destination unit; a failure leaves what was done before it
CreateOutcomes == {"ok", "createFails", "attachSourceFails", "attachDestFails"}

createSharedVolume(w, sourceUnit, sourcePath, destUnit, destPath, out) ==
  LET w1 == [w EXCEPT !.volume = TRUE]
      w2 == [w1 EXCEPT !.devices = @ \cup {Device(sourceUnit, sourcePath, TRUE)}]
      w3 == [w2 EXCEPT !.devices = @ \cup {Device(destUnit, destPath, TRUE)}]
  IN  CASE out = "createFails"       -> w
        [] out = "attachSourceFails" -> w1
        [] out = "attachDestFails"   -> w2
        [] out = "ok"                -> w3

MountFrame ==
  UNCHANGED <<op, margs, unitVars, signalVars, worldVars, trace, composeVars,
              store, hostUnit, listing, before>>

\* the error of a failed share creation with the errors of the cleanup
\* unmounts taken into account: the last error wins
ShareError_LastWins(createErr, umountSrcErr, umountDstErr) ==
  IF umountDstErr # "nil" THEN umountDstErr
  ELSE IF umountSrcErr # "nil" THEN umountSrcErr ELSE createErr

\* lines 498-507: the errors of the two UmountShare calls are logged, the
\* error of createSharedVolume is returned
ShareError(createErr, umountSrcErr, umountDstErr) == createErr

\* lines 447-488: connect, look the destination unit up, parse the source
MountShareBegin ==
  /\ mpc = "mount"
  /\ \E res \in {"ok", "connectFails", "unitsFail", "notFound"} :
       LET fields == Split(margs.source) IN
       IF res # "ok" THEN mpc' = "returned" /\ merr' = res
       ELSE IF Len(fields) > 2 THEN mpc' = "returned" /\ merr' = "parse"
       ELSE /\ mpc' = IF Len(fields) = 2 THEN "share" ELSE "hostpath"
            /\ merr' = "nil"
  /\ UNCHANGED <<mnt, mtrace>>
  /\ MountFrame

\* lines 490-508: a unit-to-unit share
MountUnitShare ==
  /\ mpc = "share"
  /\ LET fields     == Split(margs.source)
         sourceUnit == fields[1][1]
         sourcePath == fields[2]
         destPath   == cleanMountTargetPath(margs.destPath)
     IN  \E out \in CreateOutcomes, o1 \in UmountOutcomes, o2 \in UmountOutcomes :
           LET w1 == createSharedVolume(mnt, sourceUnit, sourcePath,
                                        margs.destUnit, destPath, out)
               l1 == Append(mtrace, CreateCall(sourceUnit, sourcePath, out))
               u1 == UmountShare(w1, l1, margs.backend, sourceUnit, sourcePath, o1)
               u2 == UmountShare(u1.w, u1.lg, margs.backend, margs.destUnit, destPath, o2)
           IN  IF out = "ok"
                 THEN mnt' = w1 /\ mtrace' = l1 /\ merr' = "nil"
                 ELSE /\ mnt' = u2.w /\ mtrace' = u2.lg
                      /\ merr' = ShareError("create", u1.err, u2.err)
  /\ mpc' = "returned"
  /\ MountFrame

\* MountDirectory: a disk device on the unit, with the directory as its source
MountDirectory(w, unit, target) ==
  [w EXCEPT !.devices = @ \cup {Device(unit, target, FALSE)}]

TeardownCalls_None(vmUmount) == <<>>

\* lines 523-528: the attach failed, and the mount into the VM is undone
\* before the attach error is returned
TeardownCalls(vmUmount) == <<vmUmount>>

\* lines 510-537: a host path
MountHostPath ==
  /\ mpc = "hostpath"
  /\ LET destPath == cleanMountTargetPath(margs.destPath)
         dir      == getDiskDeviceHash(margs.destUnit, destPath)
         vmMount  == MCall("multipass mount", margs.destUnit, destPath)
         vmUmount == MCall("multipass umount", margs.destUnit, destPath)
         attach   == MCall("MountDirectory", margs.destUnit, destPath)
     IN  \E res \in {"ok", "vmMountFails", "attachFails"}, undo \in BOOLEAN :
           IF margs.backend = "multipass"
             THEN CASE res = "vmMountFails" ->
                         /\ mtrace' = Append(mtrace, vmMount)
                         /\ merr' = "vmMount"
                         /\ UNCHANGED mnt
                    [] res = "attachFails" ->
                         /\ mtrace' = mtrace \o <<vmMount, attach>> \o TeardownCalls(vmUmount)
                         /\ merr' = "attach"
                         /\ mnt' = IF undo THEN mnt
                                   ELSE [mnt EXCEPT !.vmMounts = @ \cup {dir}]
                    [] res = "ok" ->
                         /\ mtrace' = mtrace \o <<vmMount, attach>>
                         /\ merr' = "nil"
                         /\ mnt' = MountDirectory([mnt EXCEPT !.vmMounts = @ \cup {dir}],
                                                  margs.destUnit, destPath)
             ELSE /\ res # "vmMountFails"
                  /\ mtrace' = Append(mtrace, attach)
                  /\ IF res = "attachFails"
                       THEN merr' = "attach" /\ UNCHANGED mnt
                       ELSE merr' = "nil"
                            /\ mnt' = MountDirectory(mnt, margs.destUnit, destPath)
  /\ mpc' = "returned"
  /\ MountFrame

\* BraveHost.UmountShare as the operation of the run
UmountShareOp ==
  /\ mpc = "umount"
  /\ \E out \in UmountOutcomes :
       LET u == UmountShare(mnt, mtrace, margs.backend, margs.destUnit, margs.destPath, out)
       IN  mnt' = u.w /\ mtrace' = u.lg /\ merr' = u.err
  /\ mpc' = "returned"
  /\ MountFrame

MountStep == MountShareBegin \/ MountUnitShare \/ MountHostPath \/ UmountShareOp

----------------------------------------------------------------------------
(* The local image store: BraveHost.ImportLocalImage and DeleteLocalImage *)

\* the two files of one image identity.  "old" is what a finished earlier
\* import left, "new" the content of the file being imported, "partial" an
\* archive whose copy broke off, "empty" a hash file created and not written
StoreStates == [archive : {"none", "old"}, hash : {"none", "old"}]

\* matchLocalImagePath(image): the archive of the identity is in the store
matchLocalImagePath(st) == st.archive # "none"

HostFrame ==
  UNCHANGED <<op, margs, before, unitVars, signalVars, worldVars, trace, composeVars>>

ImageFrame == HostFrame /\ UNCHANGED <<mnt, hostUnit, listing>>

\* a call that is not on a unit and a path
HCall(name) == MCall(name, "", <<>>)

HLog(name) == mtrace' = Append(mtrace, HCall(name))

HIssued(name) == \E k \in 1..Len(mtrace) : mtrace[k].op = name

HReturn(e) == mpc' = "returned" /\ merr' = e

HGoto(to) == mpc' = to /\ merr' = "nil"

\* a step that reads and changes nothing: if err != nil { return err }
HostRead(from, to, tags) ==
  /\ mpc = from
  /\ \E res \in tags \cup {"ok"} :
       IF res = "ok" THEN HGoto(to) ELSE HReturn(res)
  /\ UNCHANGED <<mnt, mtrace, store, hostUnit, listing>>
  /\ HostFrame

\* lines 42-50: the identity is derived from the file's name
ImportParse == HostRead("import", "importCheck", {"parse"})

\* the existence test of ImportLocalImage never reporting a conflict
ImportConflict_Never(found) == FALSE

\* lines 52-54: if _, err = matchLocalImagePath(image); err == nil
ImportConflict(found) == found

\* lines 52-54
ImportCheck ==
  /\ mpc = "importCheck"
  /\ IF ImportConflict(matchLocalImagePath(store))
       THEN HReturn("exists")
       ELSE HGoto("importCopy")
  /\ UNCHANGED <<mtrace, store>>
  /\ ImageFrame

\* lines 56-62: shared.CopyFile(sourcePath, imagePath); a copy that fails
\* leaves no archive, or a part of it
ImportCopy ==
  /\ mpc = "importCopy"
  /\ HLog("CopyFile")
  /\ \E res \in {"ok", "fails", "breaksOff"} :
       CASE res = "ok"        -> store' = [store EXCEPT !.archive = "new"]
                                 /\ HGoto("importHash")
         [] res = "fails"     -> UNCHANGED store /\ HReturn("copy")
         [] res = "breaksOff" -> store' = [store EXCEPT !.archive = "partial"]
                                 /\ HReturn("copy")
  /\ ImageFrame

\* lines 64-67: shared.FileHash(sourcePath)
ImportHash ==
  /\ mpc = "importHash"
  /\ \E ok \in BOOLEAN : IF ok THEN HGoto("importCreate") ELSE HReturn("hash")
  /\ UNCHANGED <<mtrace, store>>
  /\ ImageFrame

\* lines 69-74: os.Create(hashFile) truncates a file that is there
ImportCreate ==
  /\ mpc = "importCreate"
  /\ HLog("Create")
  /\ \E ok \in BOOLEAN :
       IF ok THEN store' = [store EXCEPT !.hash = "empty"] /\ HGoto("importWrite")
             ELSE UNCHANGED store /\ HReturn("create")
  /\ ImageFrame

\* lines 76-83: f.WriteString(imageHash)
ImportWrite ==
  /\ mpc = "importWrite"
  /\ HLog("WriteString")
  /\ \E ok \in BOOLEAN :
       IF ok THEN store' = [store EXCEPT !.hash = "new"] /\ HReturn("nil")
             ELSE UNCHANGED store /\ HReturn("write")
  /\ ImageFrame

\* lines 137-147: ParseLegacyImageString or ParseImageString
DeleteParse == HostRead("deleteImage", "deleteMatch", {"parse"})

\* lines 149-153
DeleteMatch ==
  /\ mpc = "deleteMatch"
  /\ IF matchLocalImagePath(store) THEN HGoto("removeArchive") ELSE HReturn("notFound")
  /\ UNCHANGED <<mtrace, store>>
  /\ ImageFrame

\* os.Remove of a file of the store: it fails when the file is not there,
\* and it can fail when it is
RemoveOutcomes(file) == IF file = "none" THEN {FALSE} ELSE BOOLEAN

\* lines 155-158: os.Remove(imagePath)
RemoveArchive ==
  /\ mpc = "removeArchive"
  /\ HLog("Remove archive")
  /\ \E ok \in RemoveOutcomes(store.archive) :
       IF ok THEN store' = [store EXCEPT !.archive = "none"] /\ HGoto("removeHash")
             ELSE UNCHANGED store /\ HReturn("remove")
  /\ ImageFrame

\* lines 160-165: os.Remove(imageHash)
RemoveHash ==
  /\ mpc = "removeHash"
  /\ HLog("Remove hash")
  /\ \E ok \in RemoveOutcomes(store.hash) :
       IF ok THEN store' = [store EXCEPT !.hash = "none"] /\ HReturn("nil")
             ELSE UNCHANGED store /\ HReturn("remove")
  /\ ImageFrame

\* the tool is run again on the same store: the files are as the last
\* operation left them, and ImportLocalImage or DeleteLocalImage begins; the
\* stores that the operations so far have returned with are kept (history)
NextImageOp ==
  /\ op \in {"ImportLocalImage", "DeleteLocalImage"}
  /\ mpc = "returned"
  /\ \/ op' = "ImportLocalImage" /\ mpc' = "import"
     \/ op' = "DeleteLocalImage" /\ mpc' = "deleteImage"
  /\ mtrace' = <<>> /\ merr' = "nil"
  /\ before' = [before EXCEPT !.store = store, !.left = @ \cup {store}]
  /\ UNCHANGED <<margs, mnt, store, hostUnit, listing,
                 unitVars, signalVars, worldVars, trace, composeVars>>

ImageStoreStep ==
  \/ ImportParse \/ ImportCheck \/ ImportCopy \/ ImportHash \/ ImportCreate
  \/ ImportWrite \/ DeleteParse \/ DeleteMatch \/ RemoveArchive \/ RemoveHash

----------------------------------------------------------------------------
(* Operations on one unit: DeleteUnit, StartUnit, StopUnit, PublishUnit,
   BuildImage and ListMounts *)

\* if the remote is the local one: err := bh.Backend.Start(); a failure
\* returns
EnsureBackend(from, to) ==
  /\ mpc = from
  /\ IF margs.local
       THEN \E ok \in BOOLEAN :
              /\ HLog(IF ok THEN "Backend.Start" ELSE "Backend.Start failed")
              /\ IF ok THEN HGoto(to) ELSE HReturn("backend")
       ELSE UNCHANGED mtrace /\ HGoto(to)
  /\ UNCHANGED <<mnt, store, hostUnit, listing>>
  /\ HostFrame

\* a call of the runtime: if err != nil { return errors.New(...) }
HostCall(name, from, to, tag) ==
  /\ mpc = from
  /\ HLog(name)
  /\ \E ok \in BOOLEAN :
       IF ~ok THEN HReturn(tag)
       ELSE IF to = "returned" THEN HReturn("nil") ELSE HGoto(to)
  /\ UNCHANGED <<mnt, store, hostUnit, listing>>
  /\ HostFrame

\* the devices of the unit that no mount made: its root disk and its network
\* interface
ForeignDevices ==
  { [name |-> <<"", <<"root">>>>, type |-> "disk", prefixed |-> FALSE, path |-> <<Slash>>],
    [name |-> <<"", <<"eth0">>>>, type |-> "nic",  prefixed |-> FALSE, path |-> <<>>] }

\* inst.Devices: the devices the mounts made, which are disks with the
\* prefix in their names, and the others
InstanceDevices(w, unit) ==
  { [name |-> d.name, type |-> "disk", prefixed |-> TRUE, path |-> d.name[2]] :
      d \in { x \in w.devices : x.name[1] = unit } }
  \cup ForeignDevices

\* the loop with no device taken to be a mount of the orchestrator
OwnedDisk_Never(d) == FALSE

\* line 638: (d["type"] == "disk") && strings.HasPrefix(deviceName, "brave_")
OwnedDisk(d) == d.type = "disk" /\ d.prefixed

\* the loop over the devices left after its first iteration
AfterUmount_FirstOnly(rest) == "deleteList"

\* line 637: the loop goes on while a device is left
AfterUmount(rest) == IF rest = {} THEN "deleteList" ELSE "deleteUmount"

\* lines 612-620
DeleteBackend == EnsureBackend("deleteUnit", "deleteConnect")

\* lines 622-635: LoadRemoteSettings, GetLXDInstanceServer, GetInstance
DeleteConnect ==
  /\ mpc = "deleteConnect"
  /\ \E res \in {"ok", "settings", "connect"} :
       IF res # "ok" THEN HReturn(res) /\ UNCHANGED <<mtrace, hostUnit>>
       ELSE /\ HLog("GetInstance")
            /\ IF ~hostUnit.inst THEN HReturn("getInstance") /\ UNCHANGED hostUnit
               ELSE LET owned == { d \in InstanceDevices(mnt, margs.destUnit) : OwnedDisk(d) }
                    IN  /\ hostUnit' = [hostUnit EXCEPT !.pending = owned]
                        /\ HGoto(IF owned = {} THEN "deleteList" ELSE "deleteUmount")
  /\ UNCHANGED <<mnt, store, listing>>
  /\ HostFrame

\* lines 637-644: one iteration of the loop over the devices, which are
\* visited in any order; the error of UmountShare is logged
DeleteUmount ==
  /\ mpc = "deleteUmount"
  /\ \E d \in hostUnit.pending, out \in UmountOutcomes :
       LET lg == Append(mtrace, MCall("UmountShare", margs.destUnit, d.path))
           u  == UmountShare(mnt, lg, margs.backend, margs.destUnit, d.path, out)
           rest == hostUnit.pending \ {d}
       IN  /\ mnt' = u.w
           /\ mtrace' = u.lg
           /\ hostUnit' = [hostUnit EXCEPT !.pending = rest]
           /\ HGoto(AfterUmount(rest))
  /\ UNCHANGED <<store, listing>>
  /\ HostFrame

\* lines 646-663: GetUnits of the profile, and the test that the unit is listed
DeleteCheckListed ==
  /\ mpc = "deleteList"
  /\ HLog("GetUnits")
  /\ \E ok \in BOOLEAN :
       IF ~ok THEN HReturn("list")
       ELSE IF ~hostUnit.listed THEN HReturn("notExist")
       ELSE HGoto("deleteInstance")
  /\ UNCHANGED <<mnt, store, hostUnit, listing>>
  /\ HostFrame

\* lines 665-668: DeleteUnit(lxdServer, name); the devices go with the instance
DeleteInstance ==
  /\ mpc = "deleteInstance"
  /\ HLog("DeleteUnit")
  /\ \E ok \in BOOLEAN :
       IF ok
         THEN /\ hostUnit' = [hostUnit EXCEPT !.inst = FALSE]
              /\ mnt' = [mnt EXCEPT !.devices = { d \in @ : d.name[1] # margs.destUnit }]
              /\ HGoto("deleteOpenDB")
         ELSE UNCHANGED <<hostUnit, mnt>> /\ HReturn("delete")
  /\ UNCHANGED <<store, listing>>
  /\ HostFrame

\* lines 672-680: os.UserHomeDir and db.OpenDB
DeleteOpenDB == HostRead("deleteOpenDB", "deleteRecord", {"home", "openDB"})

\* lines 682-687: db.DeleteUnitDB
DeleteRecord ==
  /\ mpc = "deleteRecord"
  /\ HLog("DeleteUnitDB")
  /\ \E ok \in BOOLEAN :
       IF ok THEN hostUnit' = [hostUnit EXCEPT !.record = FALSE] /\ HReturn("nil")
             ELSE UNCHANGED hostUnit /\ HReturn("deleteDB")
  /\ UNCHANGED <<mnt, store, listing>>
  /\ HostFrame

DeleteUnitStep ==
  \/ DeleteBackend \/ DeleteConnect \/ DeleteUmount \/ DeleteCheckListed
  \/ DeleteInstance \/ DeleteOpenDB \/ DeleteRecord

\* lines 858-866
StartUnitBackend == EnsureBackend("startUnit", "startConnect")

\* lines 868-876: LoadRemoteSettings and GetLXDInstanceServer
StartUnitConnect == HostRead("startConnect", "startCall", {"settings", "connect"})

\* lines 878-884
StartUnitCall == HostCall("Start", "startCall", "returned", "start")

\* lines 827-835
StopUnitBackend == EnsureBackend("stopUnit", "stopConnect")

\* lines 837-845
StopUnitConnect == HostRead("stopConnect", "stopCall", {"settings", "connect"})

\* lines 847-853
StopUnitCall == HostCall("Stop", "stopCall", "returned", "stop")

\* lines 724-728: LoadRemoteSettings
PublishLoad == HostRead("publishUnit", "publishBackend", {"settings"})

\* lines 730-735
PublishBackend == EnsureBackend("publishBackend", "publishConnect")

\* lines 737-740
PublishConnect == HostRead("publishConnect", "publishArch", {"connect"})

\* lines 742-745
PublishArch == HostCall("GetLXDServerArch", "publishArch", "publishParse", "arch")

\* lines 747-763: ParseImageString
PublishParse == HostRead("publishParse", "publishCall", {"parse"})

\* lines 768-772: Publish; the delete of the published image is deferred
\* before the error is looked at, so it runs on this return too
PublishCall ==
  /\ mpc = "publishCall"
  /\ \E ok \in BOOLEAN :
       IF ok THEN HLog("Publish") /\ HGoto("publishExport")
             ELSE /\ mtrace' = mtrace \o <<HCall("Publish"), HCall("DeleteImageByFingerprint")>>
                  /\ HReturn("publish")
  /\ UNCHANGED <<mnt, store, hostUnit, listing>>
  /\ HostFrame

\* lines 774-783: ExportImage, then the deferred delete
PublishExport ==
  /\ mpc = "publishExport"
  /\ mtrace' = mtrace \o <<HCall("ExportImage"), HCall("DeleteImageByFingerprint")>>
  /\ \E ok \in BOOLEAN : HReturn(IF ok THEN "nil" ELSE "export")
  /\ UNCHANGED <<mnt, store, hostUnit, listing>>
  /\ HostFrame

\* lines 700-705: the remote is the host's own, bh.Remote
BuildBackend == EnsureBackend("buildImage", "buildCall")

\* lines 707-718: buildImage and the switch on the type of its error
BuildCall ==
  /\ mpc = "buildCall"
  /\ HLog("buildImage")
  /\ \E res \in {"nil", "exists", "error"}, needTransferImage \in BOOLEAN :
       CASE res = "nil"    -> HGoto("buildTransfer")
         [] res = "exists" -> IF needTransferImage THEN HGoto("buildTransfer")
                                                   ELSE HReturn("exists")
         [] res = "error"  -> HReturn("build")
  /\ UNCHANGED <<mnt, store, hostUnit, listing>>
  /\ HostFrame

\* line 720
BuildTransfer == HostCall("TransferImage", "buildTransfer", "returned", "transfer")

UnitOpStep ==
  \/ StartUnitBackend \/ StartUnitConnect \/ StartUnitCall
  \/ StopUnitBackend \/ StopUnitConnect \/ StopUnitCall
  \/ PublishLoad \/ PublishBackend \/ PublishConnect \/ PublishArch
  \/ PublishParse \/ PublishCall \/ PublishExport
  \/ BuildBackend \/ BuildCall \/ BuildTransfer

----------------------------------------------------------------------------
(* BraveHost.ListMounts *)

\* a source path is the sequence of its bytes; a device is an entry of
\* unit.Devices: prefixed says that its name begins with "brave_", type is
\* the value of its key "type" ("none" without the key), hasSource says that
\* it has the key "source"
ListDevices ==
  { [id |-> 1, prefixed |-> TRUE,  type |-> "disk", hasSource |-> TRUE,
     source |-> <<1, 2>>, path |-> <<Slash, "a">>],
    [id |-> 2, prefixed |-> TRUE,  type |-> "disk", hasSource |-> TRUE,
     source |-> <<1, 2>>, path |-> <<"b">>],
    [id |-> 3, prefixed |-> TRUE,  type |-> "disk", hasSource |-> TRUE,
     source |-> <<2>>, path |-> <<Slash, "c">>],
    [id |-> 4, prefixed |-> TRUE,  type |-> "disk", hasSource |-> TRUE,
     source |-> <<1, 1>>, path |-> <<Slash, "d">>],
    [id |-> 5, prefixed |-> FALSE, type |-> "disk", hasSource |-> TRUE,
     source |-> <<1>>, path |-> <<Slash>>],
    [id |-> 6, prefixed |-> TRUE,  type |-> "nic",  hasSource |-> TRUE,
     source |-> <<1>>, path |-> <<Slash, "f">>],
    [id |-> 7, prefixed |-> TRUE,  type |-> "disk", hasSource |-> FALSE,
     source |-> <<>>, path |-> <<Slash, "g">>],
    [id |-> 8, prefixed |-> TRUE,  type |-> "none", hasSource |-> TRUE,
     source |-> <<1>>, path |-> <<Slash, "h">>] }

\* most devices on the unit
MaxDevices == 3

\* the orders a range over the map of the devices can visit them in
Enumerations(S) ==
  { f \in [1..Cardinality(S) -> S] : \A i, j \in DOMAIN f : f[i] = f[j] => i = j }

\* lines 576-583
Managed(d) == d.prefixed /\ d.type # "none" /\ d.hasSource /\ d.type = "disk"

\* s < t on strings: bytewise
RECURSIVE StringLess(_, _)
StringLess(s, t) ==
  IF t = <<>> THEN FALSE
  ELSE IF s = <<>> THEN TRUE
  ELSE IF Head(s) # Head(t) THEN Head(s) < Head(t)
  ELSE StringLess(Tail(s), Tail(t))

\* lines 588-593: the less function given to sort.Slice
SourceLess(a, b) ==
  IF Len(a.source) # Len(b.source) THEN Len(a.source) < Len(b.source)
  ELSE StringLess(a.source, b.source)

\* sort.Slice on a slice this short is an insertion sort: each element moves
\* left past the elements it is less than
RECURSIVE InsertSorted(_, _)
InsertSorted(sorted, x) ==
  IF sorted # <<>> /\ SourceLess(x, sorted[Len(sorted)])
    THEN Append(InsertSorted(SubSeq(sorted, 1, Len(sorted) - 1), x), sorted[Len(sorted)])
    ELSE Append(sorted, x)

RECURSIVE SortSlice(_, _)
SortSlice(sorted, rest) ==
  IF rest = <<>> THEN sorted ELSE SortSlice(InsertSorted(sorted, Head(rest)), Tail(rest))

\* lines 596-603: the line printed for a device
MountLine(d) ==
  [source |-> d.source,
   path   |-> IF d.path # <<>> /\ Head(d.path) = Slash THEN d.path ELSE <<Slash>> \o d.path]

\* what ListMounts prints when the devices are visited in the order enum
ListMountsOutput(enum) ==
  LET devices == SelectSeq(enum, Managed)
      sorted  == SortSlice(<<>>, devices)
  IN  [k \in 1..Len(sorted) |-> MountLine(sorted[k])]

ListFrame == HostFrame /\ UNCHANGED <<mnt, mtrace, store, hostUnit>>

\* lines 562-570: GetLXDInstanceServer and GetInstance
ListConnect == HostRead("listMounts", "listCollect", {"connect", "getInstance"})

\* lines 572-584: the loop over unit.Devices
ListCollect ==
  /\ mpc = "listCollect"
  /\ \E enum \in Enumerations(listing.devices) :
       listing' = [listing EXCEPT !.slice = SelectSeq(enum, Managed)]
  /\ HGoto("listPrint")
  /\ ListFrame

\* lines 586-605: the sort and the printing
ListPrint ==
  /\ mpc = "listPrint"
  /\ LET sorted == SortSlice(<<>>, listing.slice)
     IN  listing' = [listing EXCEPT !.out = [k \in 1..Len(sorted) |-> MountLine(sorted[k])]]
  /\ HReturn("nil")
  /\ ListFrame

ListMountsStep == ListConnect \/ ListCollect \/ ListPrint

----------------------------------------------------------------------------
(* Specification *)

InitInitUnit ==
  /\ op = "InitUnit"
  /\ pc = "validate"
  /\ unitParams \in UnitParams
  /\ inst \in {"absent", "preexisting"}
  /\ imageCache \in {"absent", "preexisting"}

NoInitUnit ==
  /\ pc = "idle" /\ inst = "absent" /\ imageCache = "absent"
  /\ unitParams \in ComposeUnitParams

NoCompose == cpc = "idle" /\ composeFile = <<>> /\ localImages = {}

\* Compose of a descriptor with the third service
InitComposeUnrelated ==
  /\ op = "Compose"
  /\ cpc = "start"
  /\ composeFile \in ComposeFilesWithUnrelated
  /\ localImages \in SUBSET Services
  /\ NoInitUnit

NoMount ==
  /\ mpc = "idle"
  /\ margs = <<>>
  /\ mnt = [devices |-> {}, volume |-> FALSE, vmMounts |-> {}]
  /\ store = [archive |-> "none", hash |-> "none"]
  /\ hostUnit = [inst |-> FALSE, listed |-> FALSE, record |-> FALSE, pending |-> {}]
  /\ listing = [devices |-> {}, slice |-> <<>>, out |-> <<>>]

InitCompose ==
  /\ op = "Compose"
  /\ cpc = "start"
  /\ composeFile \in ComposeFiles
  /\ localImages \in SUBSET Services
  /\ NoInitUnit


\* the worlds DeleteUnit is started in: the unit u2 with devices mounts have
\* made, and a volume that exists when a device attaches it
DeleteWorlds ==
  { [devices |-> ds, volume |-> v, vmMounts |-> vm] :
      ds \in SUBSET { Device("u2", <<Slash, "data">>, FALSE),
                      Device("u2", <<Slash, "srv">>, TRUE),
                      Device("u1", <<Slash, "srv">>, TRUE) },
      v \in BOOLEAN,
      vm \in SUBSET { getDiskDeviceHash("u2", <<Slash, "data">>) } }

NoStore == store = [archive |-> "none", hash |-> "none"]

NoHostUnit == hostUnit = [inst |-> FALSE, listed |-> FALSE, record |-> FALSE, pending |-> {}]

NoListing == listing = [devices |-> {}, slice |-> <<>>, out |-> <<>>]

NoDevices == mnt = [devices |-> {}, volume |-> FALSE, vmMounts |-> {}]

\* DeleteUnit of the unit u2; a unit that is listed under the profile exists
InitDeleteUnit ==
  /\ op = "DeleteUnit"
  /\ mpc = "deleteUnit"
  /\ margs \in [backend : BackendTypes, local : BOOLEAN, destUnit : {"u2"}]
  /\ mnt \in { w \in DeleteWorlds : (\E d \in w.devices : d.vol) => w.volume }
  /\ hostUnit \in { u \in [inst : BOOLEAN, listed : BOOLEAN, record : BOOLEAN, pending : {{}}] :
                      u.listed => u.inst }
  /\ NoStore /\ NoListing

\* StartUnit, StopUnit, PublishUnit or BuildImage
InitUnitOp ==
  /\ \/ op = "StartUnit"   /\ mpc = "startUnit"
     \/ op = "StopUnit"    /\ mpc = "stopUnit"
     \/ op = "PublishUnit" /\ mpc = "publishUnit"
     \/ op = "BuildImage"  /\ mpc = "buildImage"
  /\ margs \in [local : BOOLEAN]
  /\ NoDevices /\ NoStore /\ NoHostUnit /\ NoListing

\* ImportLocalImage or DeleteLocalImage of an identity, in a store an earlier
\* import or delete can have left
InitImageStore ==
  /\ \/ op = "ImportLocalImage" /\ mpc = "import"
     \/ op = "DeleteLocalImage" /\ mpc = "deleteImage"
  /\ store \in StoreStates
  /\ margs = <<>>
  /\ NoDevices /\ NoHostUnit /\ NoListing

\* ListMounts of a unit with some devices
InitListMounts ==
  /\ op = "ListMounts"
  /\ mpc = "listMounts"
  /\ margs = <<>>
  /\ listing \in { [devices |-> ds, slice |-> <<>>, out |-> <<>>] :
                     ds \in { S \in SUBSET ListDevices : Cardinality(S) <= MaxDevices } }
  /\ NoDevices /\ NoStore /\ NoHostUnit

\* MountShare on two units without devices
InitMountShare ==
  /\ op = "MountShare"
  /\ mpc = "mount"
  /\ margs \in [backend : BackendTypes, local : BOOLEAN, source : MountSources,
                 destUnit : {"u2"}, destPath : MountPaths]
  /\ mnt = [devices |-> {}, volume |-> FALSE, vmMounts |-> {}]
  /\ NoStore /\ NoHostUnit /\ NoListing

\* UmountShare on a unit, in a world a MountShare can have left
InitUmountShare ==
  /\ op = "UmountShare"
  /\ mpc = "umount"
  /\ margs \in [backend : BackendTypes, local : BOOLEAN, source : {<<>>},
                 destUnit : {"u2"}, destPath : MountPaths]
  /\ mnt \in MountWorlds
  /\ NoStore /\ NoHostUnit /\ NoListing

\* nothing has run yet
InitIdle ==
  /\ ctxDone = FALSE /\ notified = FALSE /\ sigSeen = FALSE /\ watcher = "none"
  /\ err = "nil" /\ cause = "nil" /\ deferImage = FALSE /\ deferUnit = FALSE /\ portIdx = 1
  /\ record = FALSE /\ trace = <<>>
  /\ order = <<>> /\ topo = <<>> /\ cidx = 1 /\ cdefers = <<>> /\ cerr = "nil" /\ units = {}
  /\ cwd = "start" /\ ctrace = <<>>
  /\ merr = "nil" /\ mtrace = <<>>

\* the history of the world begins with the world
Found == before = [mnt |-> mnt, store |-> store, unit |-> hostUnit]

Init ==
  /\ InitIdle
  /\ \/ InitInitUnit /\ NoCompose /\ NoMount
     \/ InitCompose /\ NoMount
     \/ InitMountShare /\ NoInitUnit /\ NoCompose
     \/ InitUmountShare /\ NoInitUnit /\ NoCompose
  /\ Found

Next == InitUnitStep \/ ComposeStep \/ MountStep \/ Interrupt

Spec == Init /\ [][Next]_vars

\* the runs of InitUnit and of Compose that no signal interrupts, Compose
\* with a descriptor of three services
InitUnrelated ==
  /\ InitIdle
  /\ \/ InitInitUnit /\ NoCompose /\ NoMount
     \/ InitComposeUnrelated /\ NoMount
  /\ Found

NextUninterrupted == InitUnitStep \/ ComposeStep

SpecUnrelated == InitUnrelated /\ [][NextUninterrupted]_vars

\* the runs of InitUnit with the watcher of the signals as a process of its
\* own
InitWatched ==
  /\ InitIdle /\ InitInitUnit /\ NoCompose /\ NoMount
  /\ ~unitParams.docker /\ unitParams.gpu = unitParams.ip /\ Len(unitParams.ports) <= 1
  /\ Found

NextWatched == InitUnitStep \/ WatcherReceives \/ Signal

SpecWatcher == InitWatched /\ [][NextWatched]_vars

\* the runs of ImportLocalImage and DeleteLocalImage one after the other on
\* one store, which is empty or holds a finished import at first
InitStore ==
  /\ InitIdle /\ NoInitUnit /\ NoCompose
  /\ InitImageStore
  /\ store.archive = store.hash
  /\ before = [mnt |-> mnt, store |-> store, unit |-> hostUnit, left |-> {}]

NextStore == ImageStoreStep \/ NextImageOp

SpecStore == InitStore /\ [][NextStore]_vars

\* the runs of the operations on one unit, on one image and on the mounts
InitHost ==
  /\ InitIdle /\ NoInitUnit /\ NoCompose
  /\ \/ InitDeleteUnit
     \/ InitUnitOp
     \/ InitImageStore
     \/ InitListMounts
     \/ InitMountShare
     \/ InitUmountShare
  /\ Found

NextHost ==
  MountStep \/ DeleteUnitStep \/ UnitOpStep \/ ImageStoreStep \/ ListMountsStep

SpecHost == InitHost /\ [][NextHost]_vars

----------------------------------------------------------------------------
(* Properties of InitUnit *)

InitUnitReturned == pc = "returned"

\* position in the log of the first call with this name, 0 when there is none
FirstCall(name) ==
  IF Issued(name) THEN CHOOSE k \in 1..Len(trace) :
                         /\ trace[k].op = name
                         /\ \A j \in 1..(k - 1) : trace[j].op # name
  ELSE 0

\* the calls of the runtime protocol that deploy: everything but the cleanups
DeploySteps ==
  {"ImportImage", "LaunchFromImage", "AttachNetwork", "ConfigDevice", "Stop",
   "Start", "AddDevice", "SetConfig", "addIPRules", "postdeploy"}

CleanupCalls == {"DeleteUnit", "DeleteImageByFingerprint"}

\* the errors of the steps that come before the launch call
BeforeLaunchErrors ==
  {"validate", "parse", "backend", "build", "connect", "nameExists", "resolve",
   "storage", "hostPorts", "import"}

\* C1: when the launch call has been issued and InitUnit returns an error, a
\* delete of the unit has been issued after the launch call by the time
\* InitUnit has returned; and as long as the launch call has not been issued
\* (so whenever InitUnit fails before it), this deployment has created no
\* instance.
C1_RollbackAfterLaunch ==
  /\ (InitUnitReturned /\ err # "nil" /\ Issued("LaunchFromImage"))
       => /\ Issued("DeleteUnit")
          /\ FirstCall("LaunchFromImage") < FirstCall("DeleteUnit")
  /\ ~Issued("LaunchFromImage") => inst # "created"
  /\ (InitUnitReturned /\ cause \in BeforeLaunchErrors) => ~Issued("LaunchFromImage")

\* the network attach failed after a launch, and the rollback deleted the unit
C1_Witness ==
  /\ InitUnitReturned /\ err = "attach"
  /\ Issued("DeleteUnit") /\ inst = "absent"

C3_ImportedImageDeleted ==
  InitUnitReturned => (imageCache = "imported" => Issued("DeleteImageByFingerprint"))

\* C4: a deploy step that completes while the context is cancelled counts as
\* failed: only cleanup calls are issued after it.
C4_CancelledStepFails ==
  \A k \in 1..Len(trace) :
    (trace[k].op \in DeploySteps /\ trace[k].ctx)
      => \A j \in (k + 1)..Len(trace) : trace[j].op \in CleanupCalls

\* C5: in a Compose run, an InitUnit called after an interrupt was delivered
\* fails.
C5_InterruptAbortsCompose ==
  \A k \in 1..Len(ctrace) :
    (ctrace[k].op = "InitUnit returned" /\ ctrace[k - 1].sig) => ctrace[k].res = "error"

\* C6: the rollback delete leaves the error of InitUnit alone, whether the
\* delete succeeds or fails, and MountShare returns the error of the share
\* creation whatever the two cleanup unmounts do.
C6_CleanupKeepsError ==
  /\ (pc \in {"defers2", "returned"}) => err = cause
  /\ (mpc = "returned" /\ \E k \in 1..Len(mtrace) : mtrace[k].op = "createSharedVolume failed")
       => merr = "create"

\* the rollback delete failed (the unit is still there) and InitUnit returned
\* the error of the step
C6_Witness ==
  /\ InitUnitReturned /\ err = "config"
  /\ Issued("DeleteUnit") /\ inst = "created"

\* the share creation failed and the unmount of the destination failed too
C6_WitnessMount ==
  /\ mpc = "returned" /\ merr = "create"
  /\ \E k \in 1..Len(mtrace) : mtrace[k].op = "createSharedVolume failed"
  /\ mnt.devices # {}

\* C7, as claimed: with the unit's name taken, InitUnit returns an error and
\* has issued no call but the start of the backend: no image build.
C7_NameTakenTouchesNothing ==
  (InitUnitReturned /\ cause = "nameExists")
    => /\ \A k \in 1..Len(trace) : trace[k].op = "Backend.Start"
       /\ inst = "preexisting"

\* C7, amended: as long as the instance that was there before the deployment
\* is there, InitUnit has issued nothing but starts of the backend and the
\* build of an image that lives on another remote, has left the runtime's
\* image cache alone, and returns only with an error of the name check or of
\* a step before it; no delete is ever issued without a launch before it.
C7_NameTakenNoRuntimeCall ==
  /\ inst = "preexisting"
       => /\ \A k \in 1..Len(trace) : trace[k].op \in {"Backend.Start", "BuildImage"}
          /\ imageCache # "imported"
          /\ InitUnitReturned
               => cause \in {"validate", "parse", "backend", "build", "connect", "nameExists"}
  /\ Issued("DeleteUnit") => Issued("LaunchFromImage")

\* the name is taken, and the image has been built from another remote
C7_Witness ==
  /\ InitUnitReturned /\ cause = "nameExists" /\ inst = "preexisting"
  /\ Issued("BuildImage")

\* C8: a failed memory check ends the process, and InitUnit never returns
\* from it; it comes before the import and the launch; a failed storage or
\* host-port check returns an error, before the import and the launch too.
C8_MemoryCheckIsFatal ==
  /\ cause = "memory" <=> pc = "exited"
  /\ (cause \in {"memory", "storage", "hostPorts"})
       => /\ ~Issued("ImportImage") /\ ~Issued("LaunchFromImage")
          /\ inst # "created" /\ imageCache # "imported"
  /\ (cause \in {"storage", "hostPorts"}) => (pc \in {"defers", "defers2", "returned"}
                                               /\ err = cause)

\* the memory check failed
C8_Witness == pc = "exited" /\ cause = "memory" /\ inst = "absent"

\* the host-port check failed and InitUnit returned
C8_WitnessPorts == InitUnitReturned /\ err = "hostPorts"

\* C9, as claimed: a validation error (mandatory field, image identity, port
\* rule, dependency cycle) comes before any side effect.
C9_ValidationBeforeSideEffects ==
  /\ cause \in {"validate", "parse", "portFormat"} => trace = <<>>
  /\ cerr \in {"cycle", "validate"}
       => \A k \in 1..Len(ctrace) : ctrace[k].op \notin {"BuildImage", "InitUnit"}

\* C9, amended: a missing mandatory field or a malformed image identity makes
\* InitUnit fail before it has issued any call; a dependency cycle, or a
\* service that fails the validation pass, makes Compose fail before any
\* build and any deploy; a malformed port rule is found in the loop over the
\* port rules, after the launch and the configuration, and the rollback
\* delete follows.
C9_ValidationOrder ==
  /\ cause \in {"validate", "parse"} => trace = <<>>
  /\ cerr \in {"cycle", "validate"}
       => \A k \in 1..Len(ctrace) : ctrace[k].op \notin {"BuildImage", "InitUnit"}
  /\ cause = "portFormat"
       => /\ Issued("LaunchFromImage") /\ Issued("SetConfig")
          /\ InitUnitReturned => Issued("DeleteUnit")

\* a one-field port rule was found after the launch; the unit was rolled back
C9_Witness ==
  /\ InitUnitReturned /\ err = "portFormat"
  /\ Issued("LaunchFromImage") /\ Issued("DeleteUnit")

\* a dependency cycle
C9_WitnessCycle == cpc = "returned" /\ cerr = "cycle"

\* C10: a rule that has not exactly two fields is never applied, and no rule
\* after it is: fewer rules are applied than the index of such a rule.
C10_MalformedRuleAborts ==
  \A i \in 1..Len(unitParams.ports) :
    Len(Split(unitParams.ports[i])) # 2 => Count("addIPRules") < i

----------------------------------------------------------------------------
(* The order of the steps of InitUnit *)

\* the steps of InitUnit in the order the claim gives them (with the steps
\* before the name check, and the reads between them)
StepOrder ==
  <<"validate", "watch", "parse", "pull", "connect", "exists", "resolve",
    "storage", "memory", "hostports", "import", "launch", "attach", "ip",
    "stop1", "start1", "version", "gpu", "config", "stop2", "start2", "ports",
    "postdeploy", "persist">>

StepPos(p) == CHOOSE q \in DOMAIN StepOrder : StepOrder[q] = p

Steps == { StepOrder[q] : q \in DOMAIN StepOrder }

\* the calls a step may issue
CallsAt(p) ==
  CASE p = "pull"       -> {"Backend.Start", "BuildImage"}
    [] p = "connect"    -> {"Backend.Start"}
    [] p = "import"     -> {"ImportImage"}
    [] p = "launch"     -> {"LaunchFromImage"}
    [] p = "attach"     -> {"AttachNetwork"}
    [] p = "ip"         -> {"ConfigDevice"}
    [] p = "stop1"      -> {"Stop"}
    [] p = "start1"     -> {"Start"}
    [] p = "gpu"        -> {"AddDevice"}
    [] p = "config"     -> {"SetConfig"}
    [] p = "stop2"      -> {"Stop"}
    [] p = "start2"     -> {"Start"}
    [] p = "ports"      -> {"addIPRules"}
    [] p = "postdeploy" -> {"postdeploy"}
    [] p = "persist"    -> {"InsertUnitDB"}
    [] OTHER            -> {}

\* the earliest step that can have issued the call, given that the call
\* before it was issued by the step at position q (only the port rule step
\* issues more than one call); one past the last position when there is none
StepOfCall ==
  [name \in DeploySteps \cup {"Backend.Start", "BuildImage", "InsertUnitDB"} |->
    [q \in 0..Len(StepOrder) |->
      LET cands == { r \in DOMAIN StepOrder :
                       /\ name \in CallsAt(StepOrder[r])
                       /\ r > q \/ (r = q /\ StepOrder[r] = "ports") }
      IN  IF cands = {} THEN Len(StepOrder) + 1
          ELSE CHOOSE r \in cands : \A r2 \in cands : r <= r2]]

\* the position of the step that issued the last of the calls tr[k..],
\* when the calls are laid along StepOrder, forwards only
RECURSIVE LastStep(_, _, _)
LastStep(tr, k, q) ==
  IF k > Len(tr) \/ q > Len(StepOrder) THEN q
  ELSE LastStep(tr, k + 1, StepOfCall[tr[k].op][q])

DeployCalls == SelectSeq(trace, LAMBDA c : c.op \notin CleanupCalls)

\* C11: the calls InitUnit has issued lie along the fixed order of the steps,
\* forwards only, and none is issued by a step after the one InitUnit is at;
\* while InitUnit is at a step, no earlier step has failed; once a cleanup
\* call has been issued, no step issues a call any more.
C11_FixedStepOrder ==
  /\ LET last == LastStep(DeployCalls, 1, 0) IN
     /\ last <= Len(StepOrder)
     /\ pc \in Steps => (last < StepPos(pc) \/ (pc = "ports" /\ last = StepPos(pc)))
  /\ pc \in Steps =>
       /\ err = "nil" /\ cause = "nil"
       /\ \A k \in 1..Len(trace) : trace[k].op \notin CleanupCalls
  /\ \A k \in 1..Len(trace) : \A j \in k..Len(trace) :
       trace[k].op \in CleanupCalls => trace[j].op \in CleanupCalls

\* InitUnit succeeded after every step: a static IP, a GPU, two port rules
C11_Witness ==
  /\ InitUnitReturned /\ err = "nil"
  /\ Issued("ConfigDevice") /\ Issued("AddDevice") /\ Issued("InsertUnitDB")
  /\ Count("Stop") = Count("Start") /\ Count("Stop") > 1
  /\ Count("addIPRules") > 1

----------------------------------------------------------------------------
(* The requests InitUnit makes *)

PortRequests == SelectSeq(trace, LAMBDA c : c.op = "addIPRules")

\* C12: after a successful InitUnit there is one port-forward request for
\* each port rule, in the order of the rules, and the request of a rule "U:H"
\* maps host port H to unit port U; the configuration applied has limits.cpu
\* and limits.memory as requested, security.nesting true exactly when the
\* docker flag is set and nvidia.runtime true exactly when the GPU flag is.
C12_RequestsFollowParams ==
  (InitUnitReturned /\ err = "nil")
    => /\ Len(PortRequests) = Len(unitParams.ports)
       /\ \A i \in 1..Len(unitParams.ports) :
            LET rule == unitParams.ports[i] IN
            (Len(rule) = 3 /\ rule[2] = Colon)
              => /\ PortRequests[i].a = <<rule[3]>>
                 /\ PortRequests[i].b = <<rule[1]>>
       /\ Count("SetConfig") = 1
       /\ \A k \in 1..Len(trace) :
            trace[k].op = "SetConfig"
              => /\ trace[k].a.cpu = unitParams.cpu
                 /\ trace[k].a.memory = unitParams.ram
                 /\ trace[k].a.nesting = (IF unitParams.docker THEN "true" ELSE "false")
                 /\ trace[k].a.nvidia = (IF unitParams.gpu THEN "true" ELSE "false")

\* the rule "8080:80" was applied for a unit with the docker flag and no GPU
C12_Witness ==
  /\ InitUnitReturned /\ err = "nil"
  /\ unitParams.ports = << <<"8080", Colon, "80">> >>
  /\ unitParams.docker /\ ~unitParams.gpu

\* C13: a record is written exactly when InitUnit succeeds, and its snapshot
\* holds the requested CPU, RAM and static IP and the image reference the
\* deployment resolved, not the alias the import gave the image.
C13_RecordIffSuccess ==
  InitUnitReturned
    => /\ record <=> (err = "nil")
       /\ err = "nil"
            => \E k \in 1..Len(trace) :
                 /\ trace[k].op = "InsertUnitDB"
                 /\ trace[k].a = [cpu |-> unitParams.cpu, ram |-> unitParams.ram,
                                  ip |-> unitParams.ip, image |-> "ref"]

ComposeCleanups == {"Chdir", "DeleteUnit", "DeleteLocalImage"}

\* C14: in InitUnit a build that ends with "image exists" (or with no error)
\* is followed by the next step and is never the cause of the return, and a
\* build that ends with another error is the last call and the cause; in
\* Compose a build that ends with "image exists" is followed by the deploy of
\* the same service unless the service is a base, and does not make Compose
\* return, and a build that ends with another error makes Compose return that
\* error with nothing but cleanups after it.
C14_ImageExistsIsRecoverable ==
  /\ \A k \in 1..Len(trace) :
       trace[k].op = "BuildImage"
         => IF trace[k].a = "error"
              THEN /\ k = Len(trace)
                   /\ pc \in {"defers", "defers2", "returned"}
                   /\ cause = "build"
              ELSE cause # "build" /\ pc # "pull"
  /\ \A k \in 1..Len(ctrace) :
       ctrace[k].op = "BuildImage"
         => IF ctrace[k].res = "error"
              THEN /\ cerr = "build"
                   /\ \A j \in (k + 1)..Len(ctrace) : ctrace[j].op \in ComposeCleanups
              ELSE ~composeFile[ctrace[k].svc].base
                     => IF k = Len(ctrace)
                          THEN cpc = "deploy" /\ cerr = "nil"
                          ELSE /\ ctrace[k + 1].op = "InitUnit"
                               /\ ctrace[k + 1].svc = ctrace[k].svc
  /\ cerr = "build"
       <=> \E k \in 1..Len(ctrace) : ctrace[k].op = "BuildImage" /\ ctrace[k].res = "error"

\* Compose succeeded with a service whose image existed already: the build
\* was skipped and the service deployed
C14_Witness ==
  /\ cpc = "returned" /\ cerr = "nil"
  /\ \E k \in 1..Len(ctrace) : \E j \in k..Len(ctrace) :
       /\ ctrace[k].op = "BuildImage" /\ ctrace[k].res = "exists"
       /\ ctrace[j].op = "InitUnit returned" /\ ctrace[j].res = "nil"
       /\ ctrace[j].svc = ctrace[k].svc

\* InitUnit succeeded with an image that existed in the local image store
C14_WitnessInitUnit ==
  /\ InitUnitReturned /\ err = "nil"
  /\ \E k \in 1..Len(trace) : trace[k].op = "BuildImage" /\ trace[k].a = "exists"

----------------------------------------------------------------------------
(* Properties of Compose *)

ComposeReturned == cpc = "returned"

\* the steps of the walk: a build, the call of InitUnit, its return
WalkSteps == {"BuildImage", "InitUnit", "InitUnit returned"}

\* s depends on t, directly or not
Needs(s, t) == DependsOn(composeFile, s, t, Cardinality(DOMAIN composeFile))

\* the place of a service in the ordering the walk follows
OrderPos(s) == CHOOSE i \in DOMAIN order : order[i] = s

\* s is a base service that is not itself built for deployment
BaseOnly(s) == composeFile[s].base /\ ~composeFile[s].build

\* C15: when a service depends on another, every build and deploy step of
\* the other comes before every step of the first; the steps of one service
\* are not interleaved with those of another; with a dependency cycle
\* there is no build and no deploy step, and Compose returns an error.
C15_WalkFollowsDependencies ==
  /\ \A i, j \in 1..Len(ctrace) :
       (/\ ctrace[i].op \in WalkSteps /\ ctrace[j].op \in WalkSteps
        /\ Needs(ctrace[i].svc, ctrace[j].svc)) => j < i
  /\ \A i, j, k \in 1..Len(ctrace) :
       (/\ i < j /\ j < k
        /\ ctrace[i].op \in WalkSteps /\ ctrace[j].op \in WalkSteps
        /\ ctrace[k].op \in WalkSteps
        /\ ctrace[i].svc = ctrace[k].svc) => ctrace[j].svc = ctrace[i].svc
  /\ (op = "Compose" /\ Cyclic(composeFile))
       => /\ \A k \in 1..Len(ctrace) : ctrace[k].op \notin WalkSteps
          /\ ComposeReturned => cerr \in {"path", "cycle"}

\* a service and the service it depends on were both built and deployed
C15_Witness ==
  /\ ComposeReturned /\ cerr = "nil"
  /\ \E i, j \in 1..Len(ctrace) :
       /\ ctrace[i].op = "InitUnit returned" /\ ctrace[j].op = "InitUnit returned"
       /\ composeFile[ctrace[i].svc].dep = ctrace[j].svc
  /\ \E k \in 1..Len(ctrace) : ctrace[k].op = "BuildImage" /\ ctrace[k].res = "nil"

\* C16: when a service fails the validation pass, Compose returns with no
\* build and no deploy step taken, and the service is one that would be
\* deployed: not a base service.
C16_OnlyDeployedValidated ==
  /\ cerr = "validate"
       => \A k \in 1..Len(ctrace) : ctrace[k].op \notin WalkSteps
  /\ \A k \in 1..Len(ctrace) :
       ctrace[k].op = "ValidateDeploy" => ~composeFile[ctrace[k].svc].base

DependentsBuiltBefore(b, j) ==
  \A d \in DOMAIN composeFile :
    (/\ composeFile[d].dep = b
     /\ \E i \in DOMAIN order : order[i] = d
     /\ composeFile[d].bravefile /\ (composeFile[d].build \/ composeFile[d].base))
      => \E i \in 1..(j - 1) : ctrace[i].op = "BuildImage" /\ ctrace[i].svc = d

\* C18, as claimed: the image of a base service that is not deployed has its
\* delete issued right after its dependents are built: before any step of a
\* later service that has nothing to do with it; and the delete has been
\* issued when Compose has returned.
C18_BaseImageDeletedEarly ==
  \A k \in 1..Len(ctrace) :
    (ctrace[k].op = "BuildImage" /\ ctrace[k].res # "error" /\ BaseOnly(ctrace[k].svc))
      => /\ \A j \in (k + 1)..Len(ctrace) :
              (/\ ctrace[j].op \in WalkSteps
               /\ ctrace[j].svc # ctrace[k].svc
               /\ ~Needs(ctrace[j].svc, ctrace[k].svc)
               /\ \E d \in (k + 1)..(j - 1) :
                    /\ ctrace[d].op = "BuildImage"
                    /\ composeFile[ctrace[d].svc].dep = ctrace[k].svc
               /\ DependentsBuiltBefore(ctrace[k].svc, j))
                => \E i \in (k + 1)..(j - 1) :
                     ctrace[i].op = "DeleteLocalImage" /\ ctrace[i].svc = ctrace[k].svc
         /\ ComposeReturned
              => \E i \in (k + 1)..Len(ctrace) :
                   ctrace[i].op = "DeleteLocalImage" /\ ctrace[i].svc = ctrace[k].svc

\* C18, amended: the delete of the image of a base service that is not
\* deployed is issued when Compose returns, after the steps of every service
\* of the walk, and it has been issued when Compose has returned, with or
\* without an error.
C18_BaseImageDeletedOnReturn ==
  /\ \A k \in 1..Len(ctrace) :
       (ctrace[k].op = "BuildImage" /\ ctrace[k].res # "error" /\ BaseOnly(ctrace[k].svc))
         => (ComposeReturned
              => \E i \in (k + 1)..Len(ctrace) :
                   ctrace[i].op = "DeleteLocalImage" /\ ctrace[i].svc = ctrace[k].svc)
  /\ \A i \in 1..Len(ctrace) :
       ctrace[i].op = "DeleteLocalImage"
         => /\ cpc \in {"defers", "returned"}
            /\ \A j \in (i + 1)..Len(ctrace) : ctrace[j].op \in ComposeCleanups

\* Compose succeeded; the base image was built, its dependent was built, the
\* unrelated service was deployed after that, and the base image was deleted
\* after all of it
C18_Witness ==
  /\ ComposeReturned /\ cerr = "nil"
  /\ \E k, d, j, i \in 1..Len(ctrace) :
       /\ k < d /\ d < j /\ j < i
       /\ ctrace[k].op = "BuildImage" /\ BaseOnly(ctrace[k].svc)
       /\ ctrace[d].op = "BuildImage" /\ composeFile[ctrace[d].svc].dep = ctrace[k].svc
       /\ ctrace[j].op = "InitUnit returned" /\ ctrace[j].svc = Unrelated
       /\ ctrace[i].op = "DeleteLocalImage" /\ ctrace[i].svc = ctrace[k].svc

\* C19: when Compose has returned after it changed directory, the working
\* directory is the one Compose was called in and the restore was the last
\* cleanup to run; when it returned before it changed directory, the working
\* directory is untouched.
C19_WorkingDirRestored ==
  ComposeReturned
    => /\ cwd = "start"
       /\ cerr # "path"
            => /\ ctrace # <<>>
               /\ ctrace[Len(ctrace)].op = "Chdir"
               /\ \A k \in 1..(Len(ctrace) - 1) : ctrace[k].op # "Chdir"

\* a deployment failed in the deploy directory of a service, a unit was
\* deleted, and the working directory was restored
C19_Witness ==
  /\ ComposeReturned /\ cerr = "deploy" /\ cwd = "start"
  /\ \E k \in 1..Len(ctrace) : ctrace[k].op = "DeleteUnit"

\* the services of an ordering
InOrder(o) == { o[i] : i \in DOMAIN o }

\* C20: right after the pruning, the services dropped from the ordering are
\* the base-only services none of whose dependents needs a build; the
\* services that are kept are in the order TopologicalOrdering gave them; a
\* dropped service is neither validated, built, deployed nor deleted; and no
\* service flagged base is passed to InitUnit.
C20_PrunedBaseOnly ==
  /\ cpc = "validate"
       => \A s \in DOMAIN composeFile :
            s \notin InOrder(order)
              <=> (BaseOnly(s) /\ \A d \in DOMAIN composeFile :
                                   composeFile[d].dep = s => d \in localImages)
  /\ cpc \notin {"idle", "start", "order", "prune"}
       => /\ InOrder(order) \subseteq InOrder(topo)
          /\ \A i, j \in DOMAIN order :
               i < j => \E m, n \in DOMAIN topo :
                          m < n /\ topo[m] = order[i] /\ topo[n] = order[j]
          /\ \A k \in 1..Len(ctrace) :
               ctrace[k].svc \in InOrder(order) \cup {"none"}
  /\ \A k \in 1..Len(ctrace) :
       ctrace[k].op \in {"InitUnit", "InitUnit returned"} => ~composeFile[ctrace[k].svc].base

\* the base-only service came first and was dropped: its dependent's image
\* exists; the two other services were walked in their order
C20_Witness ==
  /\ ComposeReturned /\ cerr = "nil"
  /\ Len(topo) = Len(order) + 1
  /\ topo[1] \notin InOrder(order)
  /\ Len(order) > 1
  /\ \E k \in 1..Len(ctrace) : ctrace[k].op = "InitUnit returned" /\ ctrace[k].svc = Unrelated

----------------------------------------------------------------------------
(* Properties of DeleteUnit and of the image store *)

\* the mounts the unit of DeleteUnit had when DeleteUnit began: its disk
\* devices with the prefix of the orchestrator in their names
MountsFound == { d \in before.mnt.devices : d.name[1] = margs.destUnit }

\* C21: DeleteUnit issues an unmount for every disk device of the unit that
\* carries the prefix before it issues the delete of the instance, so the
\* delete comes only after all of these unmounts have been attempted.
C21_UnmountsBeforeDelete ==
  op = "DeleteUnit" =>
    \A k \in 1..Len(mtrace) :
      mtrace[k].op = "DeleteUnit" =>
        \A d \in MountsFound :
          \E j \in 1..(k - 1) :
            mtrace[j] = MCall("UmountShare", margs.destUnit, d.name[2])

\* the instance delete has been issued for a unit that had two mounts
C21_Witness ==
  /\ op = "DeleteUnit"
  /\ HIssued("DeleteUnit")
  /\ Cardinality({ d.name : d \in MountsFound }) = 2

\* C22, as claimed: for a unit that has an instance and a record, DeleteUnit
\* leaves neither after a success, never has the record deleted while the
\* instance exists, and after any return has both or neither.
C22_RecordInLockStep ==
  (op = "DeleteUnit" /\ before.unit.inst /\ before.unit.record) =>
    /\ (mpc = "returned" /\ merr = "nil") => (~hostUnit.inst /\ ~hostUnit.record)
    /\ hostUnit.inst => hostUnit.record
    /\ mpc = "returned" => (hostUnit.inst <=> hostUnit.record)

\* C23: ImportLocalImage of an identity whose archive is in the store copies
\* and writes nothing, leaves the archive and the hash file as they were, and
\* returns the conflict error (unless the file's name does not parse).
C23_SecondImportRejected ==
  (op = "ImportLocalImage" /\ before.store.archive # "none") =>
    /\ store = before.store
    /\ ~HIssued("CopyFile") /\ ~HIssued("Create") /\ ~HIssued("WriteString")
    /\ (mpc = "returned" /\ merr # "parse") => merr = "exists"

\* the second import of an identity has returned the conflict error
C23_Witness ==
  /\ op = "ImportLocalImage"
  /\ before.store = [archive |-> "old", hash |-> "old"]
  /\ mpc = "returned" /\ merr = "exists"

\* C24, as claimed: DeleteLocalImage returns success with both files removed,
\* or an error with both files as they were.
C24_DeleteAllOrNothing ==
  (op = "DeleteLocalImage" /\ mpc = "returned") =>
    \/ merr = "nil" /\ store = [archive |-> "none", hash |-> "none"]
    \/ merr # "nil" /\ store = before.store

----------------------------------------------------------------------------
(* Properties of the mounts, of the backend's start and of the watcher *)

\* C25, as claimed, for the backing volume: when MountShare has returned the
\* error of a share creation that failed part-way, no backing volume remains
\* that no unit references.
C25_FailedShareLeavesNothing ==
  (op = "MountShare" /\ mpc = "returned" /\ merr = "create") =>
    ~(mnt.volume /\ UsedBy(mnt) = {})

\* the device UmountShare is called on, as the unit had it
UmountedDevices ==
  { d \in before.mnt.devices :
      d.name = getDiskDeviceHash(margs.destUnit, cleanMountTargetPath(margs.destPath)) }

\* C26, as claimed: UmountShare issues the volume's delete only after the
\* device's; a volume goes only when the device removed was a unit-to-unit
\* share's and no unit references the volume any longer; and when the removal
\* of the device fails, the error is returned and no volume is deleted.
C26_VolumeOnlyForUnitShares ==
  op = "UmountShare" =>
    /\ \A k \in 1..Len(mtrace) :
         mtrace[k].op = "DeleteVolume" =>
           \E j \in 1..(k - 1) : mtrace[j].op = "DeleteDevice"
    /\ (before.mnt.volume /\ ~mnt.volume) =>
         /\ \E d \in UmountedDevices : d.vol
         /\ UsedBy(mnt) = {}
    /\ (mpc = "returned" /\ merr = "umount") =>
         /\ mnt = before.mnt
         /\ ~HIssued("DeleteVolume")

\* the calls of the runtime protocol that the operations log
RuntimeCalls ==
  { "GetInstance", "GetUnits", "DeleteUnit", "DeleteDevice", "DeleteVolume",
    "Start", "Stop", "GetLXDServerArch", "Publish", "ExportImage",
    "DeleteImageByFingerprint", "buildImage", "TransferImage",
    "createSharedVolume", "createSharedVolume failed", "MountDirectory" }

\* C27, as claimed, for the operations other than InitUnit: with the local
\* remote as target, a successful start of the backend precedes the first call
\* of the runtime protocol, and a failed start is followed by none.
C27_BackendStartedFirst ==
  (/\ op \in {"DeleteUnit", "StartUnit", "StopUnit", "PublishUnit", "BuildImage",
              "MountShare", "UmountShare"}
   /\ margs.local) =>
    \A k \in 1..Len(mtrace) :
      mtrace[k].op \in RuntimeCalls =>
        /\ \E j \in 1..(k - 1) : mtrace[j].op = "Backend.Start"
        /\ \A j \in 1..(k - 1) : mtrace[j].op # "Backend.Start failed"

\* C28, as claimed: a signal delivered to the process during a deployment,
\* once the watcher has been started, leaves the deployment's context
\* cancelled.
C28_NoSignalLost ==
  (op = "InitUnit" /\ sigSeen) => ctxDone

\* the devices of the unit that ListMounts is to print
ManagedFound ==
  { d \in listing.devices : d.prefixed /\ d.type = "disk" /\ d.hasSource }

\* C29, as claimed: ListMounts prints one line for each device of the unit
\* that has the prefix, is a disk and has a source, and for no other; the
\* lines ascend by the length of the source and then by the source; and the
\* lines are the same for every order in which the devices are enumerated.
C29_ListingDeterministic ==
  (op = "ListMounts" /\ mpc = "returned" /\ merr = "nil") =>
    /\ Len(listing.out) = Cardinality(ManagedFound)
    /\ { listing.out[k] : k \in 1..Len(listing.out) } = { MountLine(d) : d \in ManagedFound }
    /\ \A i, j \in 1..Len(listing.out) :
         i < j =>
           LET s == listing.out[i].source
               t == listing.out[j].source
           IN  \/ Len(s) < Len(t)
               \/ Len(s) = Len(t) /\ (s = t \/ StringLess(s, t))
    /\ \A enum \in Enumerations(listing.devices) : ListMountsOutput(enum) = listing.out

\* C30: in InitUnit with the GPU flag set, the GPU device is attached before
\* the configuration is applied; when the attach fails, the configuration is
\* not applied and the rollback delete of the unit is issued before InitUnit
\* returns.
C30_GpuBeforeConfig ==
  (op = "InitUnit" /\ unitParams.gpu) =>
    /\ \A k \in 1..Len(trace) :
         trace[k].op = "SetConfig" =>
           \E j \in 1..(k - 1) : trace[j].op = "AddDevice"
    /\ cause = "gpu" =>
         /\ ~Issued("SetConfig")
         /\ pc \in {"defers2", "returned"} => Issued("DeleteUnit")

\* the attach of the GPU device failed and the unit has been deleted
C30_Witness ==
  /\ op = "InitUnit" /\ unitParams.gpu
  /\ pc = "returned" /\ cause = "gpu" /\ err # "nil"
  /\ Issued("AddDevice") /\ Issued("DeleteUnit") /\ inst = "absent"

----------------------------------------------------------------------------
(* Properties of the image store as a pair, of host-path mounts, of the
   memory check under Compose, and of base images *)

\* the archive is in the store without its hash file
ArchiveOnly(st) == st.archive # "none" /\ st.hash = "none"

\* the hash file is in the store without its archive
HashOnly(st) == st.hash # "none" /\ st.archive = "none"

\* C31, as claimed: over the stores that ImportLocalImage and DeleteLocalImage,
\* run one after the other, have returned with, and the store as it is now,
\* either the archive never exists without the hash file, or the hash file
\* never exists without the archive.
C31_OnePairInvariant ==
  LET seen == before.left \cup {store} IN
  \/ \A st \in seen : ~ArchiveOnly(st)
  \/ \A st \in seen : ~HashOnly(st)

\* the directory in the VM that a host-path MountShare mounts the path on
SharedDirectory ==
  getDiskDeviceHash(margs.destUnit, cleanMountTargetPath(margs.destPath))

\* the positions in the log of the calls of one name
CallsOf(name) == { k \in 1..Len(mtrace) : mtrace[k].op = name }

\* MountShare of a host path has returned from its switch on the backend
HostPathReturned ==
  /\ op = "MountShare" /\ mpc = "returned"
  /\ Len(Split(margs.source)) = 1
  /\ merr \in {"nil", "vmMount", "attach"}

\* C32: on the VM-hosted backend the mount into the VM is issued before the
\* attach to the unit; when the attach fails, the unmount from the VM is
\* issued after it and before MountShare returns the attach error, with no
\* device left on the unit; when the mount into the VM fails, no attach is
\* issued. On the native backend the attach is the only call.
C32_IntermediateMountOrder ==
  HostPathReturned =>
    IF margs.backend = "multipass"
      THEN /\ Cardinality(CallsOf("multipass mount")) = 1
           /\ \A a \in CallsOf("MountDirectory") :
                \E m \in CallsOf("multipass mount") : m < a
           /\ merr = "vmMount" =>
                /\ CallsOf("MountDirectory") = {}
                /\ CallsOf("multipass umount") = {}
                /\ mnt = before.mnt
           /\ merr = "attach" =>
                /\ \E a \in CallsOf("MountDirectory"), u \in CallsOf("multipass umount") :
                     a < u
                /\ mnt.devices = before.mnt.devices
           /\ merr = "nil" => CallsOf("multipass umount") = {}
      ELSE /\ CallsOf("multipass mount") = {}
           /\ CallsOf("multipass umount") = {}
           /\ Cardinality(CallsOf("MountDirectory")) = 1
           /\ mnt.vmMounts = before.mnt.vmMounts

C32_Witness ==
  /\ HostPathReturned /\ margs.backend = "multipass" /\ merr = "attach"
  /\ CallsOf("multipass umount") # {}
  /\ SharedDirectory \notin mnt.vmMounts

\* the services of the run whose step of the given name ended with nil
EndedNil(name) ==
  { ctrace[k].svc : k \in { j \in 1..Len(ctrace) :
                              ctrace[j].op = name /\ ctrace[j].res = "nil" } }

\* the cleanups Compose has registered for a service
Registered(kind, svc) ==
  \E k \in 1..Len(cdefers) : cdefers[k] = [kind |-> kind, svc |-> svc]

\* C33: when the memory check of a service's deployment fails during a
\* Compose run, the process has ended inside InitUnit: Compose is still at its
\* call of InitUnit, none of its deferred cleanups has run, the units deployed
\* and the images built for the earlier services are in place with their
\* cleanups still registered, and the working directory is not the one the
\* run was started in.
C33_FatalSkipsComposeCleanups ==
  (op = "Compose" /\ cause = "memory") =>
    /\ pc = "exited" /\ cpc = "deploying"
    /\ \A k \in 1..Len(ctrace) :
         ctrace[k].op \notin {"DeleteUnit", "DeleteLocalImage", "Chdir"}
    /\ \A svc \in EndedNil("InitUnit returned") :
         svc \in units /\ Registered("unit", svc)
    /\ \A svc \in EndedNil("BuildImage") :
         svc \in localImages /\ Registered("image", svc)
    /\ \E k \in 1..Len(cdefers) : cdefers[k].kind = "chdir"
    /\ cwd # "start"

C33_Witness ==
  /\ op = "Compose" /\ cause = "memory" /\ pc = "exited"
  /\ EndedNil("InitUnit returned") # {}
  /\ EndedNil("BuildImage") # {}
  /\ units # {} /\ localImages # {}

\* DeleteUnit has returned "unit does not exist": the instance was there and
\* the profile's unit list did not have it
ReturnedNotListed == op = "DeleteUnit" /\ mpc = "returned" /\ merr = "notExist"

\* C34: DeleteUnit issues the unmounts of the unit's disk devices that carry
\* the prefix before it reads the unit list of the profile, so when it returns
\* "unit does not exist" every one of these unmounts has been issued, while
\* neither the delete of the instance nor the delete of the record has been:
\* the instance and the record are as they were found.
C34_UnmountsBeforeListCheck ==
  /\ op = "DeleteUnit" =>
       \A k \in CallsOf("GetUnits") :
         \A d \in MountsFound :
           \E j \in 1..(k - 1) :
             mtrace[j] = MCall("UmountShare", margs.destUnit, d.name[2])
  /\ ReturnedNotListed =>
       /\ CallsOf("GetUnits") # {}
       /\ CallsOf("DeleteUnit") = {} /\ CallsOf("DeleteUnitDB") = {}
       /\ hostUnit.inst /\ before.unit.inst
       /\ hostUnit.record = before.unit.record

\* the failed DeleteUnit has left the instance and its record, and none of the
\* two mounts the unit had
C34_Witness ==
  /\ ReturnedNotListed
  /\ hostUnit.inst /\ hostUnit.record
  /\ Cardinality({ d.name : d \in MountsFound }) = 2
  /\ { d \in mnt.devices : d.name[1] = margs.destUnit } = {}

\* the builds of the walk that went on, for services flagged base and not
\* build, by their positions in the log
BaseOnlyBuilt ==
  { k \in 1..Len(ctrace) :
      /\ ctrace[k].op = "BuildImage"
      /\ ctrace[k].res \in {"nil", "exists"}
      /\ composeFile[ctrace[k].svc].base
      /\ ~composeFile[ctrace[k].svc].build }

\* the deletes of a service's image from the local store, by their positions
DeletesOf(svc) ==
  { k \in 1..Len(ctrace) :
      ctrace[k].op = "DeleteLocalImage" /\ ctrace[k].svc = svc }

\* C35: in Compose, for a service flagged base and not build, the delete of
\* its image is registered whether BuildImage made the image or reported that
\* it exists; when Compose has returned the delete has been issued, so an
\* image that was in the store before the run is gone once its delete
\* succeeds; and the delete is issued twice when the build made the image and
\* Compose returns an error, once otherwise.
C35_BaseImageDeleteAlwaysRegistered ==
  op = "Compose" =>
    \A k \in BaseOnlyBuilt :
      LET svc == ctrace[k].svc
          res == ctrace[k].res
      IN  /\ cpc \notin {"defers", "returned"} => Registered("baseImage", svc)
          /\ cpc = "returned" =>
               /\ \A j \in DeletesOf(svc) : j > k
               /\ Cardinality(DeletesOf(svc)) =
                    IF res = "nil" /\ cerr # "nil" THEN 2 ELSE 1
               /\ (\E j \in DeletesOf(svc) : ctrace[j].res = "nil") =>
                    svc \notin localImages

\* Compose has returned success and has deleted an image that was in the
\* local store before the run
C35_Witness ==
  /\ op = "Compose" /\ cpc = "returned" /\ cerr = "nil"
  /\ \E k \in BaseOnlyBuilt :
       /\ ctrace[k].res = "exists"
       /\ \E j \in DeletesOf(ctrace[k].svc) : ctrace[j].res = "nil"
       /\ ctrace[k].svc \notin localImages

====
